---- MODULE Spec2Model ----
(***************************************************************************)
(* A model of the SPN relay core fragments:                                *)
(*   - docks:   Crane.EstablishNewTerminal / Crane.establishTerminal       *)
(*   - captain: establishHomeHub / connectToHomeHub / optimizeNetwork      *)
(* Each subsystem has its own specification (SpecCrane, SpecHome, SpecOpt) *)
(* over its own variables; the variables of the other subsystems rest.     *)
(***************************************************************************)
EXTENDS Integers, Sequences, FiniteSets, TLC

(***************************************************************************)
(* Bounds of the model.                                                    *)
(***************************************************************************)
NumCallers == 1   \* concurrent callers of EstablishNewTerminal
MaxInits   == 1   \* remote Init frames the reader handles
ChanCap    == 1   \* capacity of controllerMsgs and of terminalMsgs

\* Two user flow IDs of the uint32 space (0 is the controller's).
FlowIDs  == {1, 2}
Callers  == 1..NumCallers
MaxUnits == NumCallers + MaxInits
UnitIDs  == 1..MaxUnits
\* The init data NewLocalCraneTerminal produces for caller c's terminal.
InitDataOf(c) == <<"init", ToString(c)>>
\* Errors NewRemoteCraneTerminal can return.
RemoteErrs == {"ErrMalformedData", "ErrPermissionDenied"}

VARIABLES
  \* ---- crane (docks) ----
  terminals,       \* crane.terminals: flow ID -> terminal (NoTerm: none)
  everRegistered,  \* history: terminal objects setTerminal was called with
  overwritten,     \* history: terminal objects replaced in the table while live
  abandonCalls,    \* history: <<caller, id>> of AbandonTerminal calls made by EstablishNewTerminal
  controllerMsgs,  \* crane.controllerMsgs: sequence of unit IDs
  terminalMsgs,    \* crane.terminalMsgs: sequence of unit IDs
  msgs,            \* every message (by unit ID): fields and unit bookkeeping
  sent,            \* history: every enqueue on a crane send channel
  craneCtxDone,    \* crane.ctx is cancelled
  workerCtxDone,   \* the module worker context is cancelled
  workers,         \* "abandon terminal" workers: set of unit IDs they hold
  cpc,             \* caller -> position in EstablishNewTerminal
  cTerm,           \* caller -> its local terminal
  cData,           \* caller -> initData
  cMsg,            \* caller -> unit ID of its Init message (0: none)
  cResult,         \* caller -> returned error ("none" before return)
  rpc,             \* reader position: "idle" | "establish"
  rID,             \* flow ID of the Init frame being handled
  initsHandled,    \* Init frames handled so far
  rErr,            \* history: err of the last NewRemoteCraneTerminal call
  \* ---- captain: establishHomeHub ----
  hpc,             \* position in establishHomeHub
  ctxDone,         \* the caller's ctx is cancelled
  homePolicy,      \* getHomeHubPolicy's result
  candidates,      \* FindNearestHubs' result
  found,           \* FindNearestHubs returned without error
  tries,           \* the loop's index variable
  err,             \* establishHomeHub's err variable
  hResult,         \* establishHomeHub's return value
  findCalls,       \* history: FindNearestHubs calls of this invocation
  bootstrapCalls,  \* history: bootstrapWithUpdates calls of this invocation
  connectLog,      \* history: hubs connectToHomeHub was called with
  connectResults,  \* history: what each of these calls returned
  \* ---- captain: connectToHomeHub ----
  kpc,             \* position in connectToHomeHub
  dst,             \* the hub being connected to
  exceptions,      \* the firewall exceptions set by setExceptions
  crane,           \* the crane of this call: "none" | "up" | "stopped"
  craneStops,      \* history: crane.Stop calls of this call
  success,         \* the success flag guarding the deferred stop
  authEnded,       \* value waiting on authOp.Ended ("none": nothing yet)
  timerFired,      \* the 3 s timer has fired
  authObs,         \* history: what the auth select saw when it resolved
  setHomeLog,      \* history: results of SetHome calls of this call
  assignLog,       \* history: hubs AssignCrane was called with in this call
  kSite,           \* history: the statement this call returned from
  kResult,         \* connectToHomeHub's return value
  \* ---- captain: optimizeNetwork ----
  opc,             \* position in optimizeNetwork
  cranes,          \* docks' assigned cranes: hub -> crane (NoCrane: none)
  now,             \* time.Now(), in hours
  result,          \* the OptimizationResult Optimize returned last
  idx,             \* index of the suggestion the loop is at
  createdConnections,    \* the loop's counter of established lanes
  attemptedConnections,  \* the loop's counter of attempted lanes
  attemptLog,      \* history: EstablishPublicLane calls of this pass
  marked,          \* history: hubs whose assigned crane this pass marked stopping
  unmarked,        \* history: hubs whose crane's mark this pass removed
  refreshed,       \* history: hubs whose crane's LastSuggestedAt this pass set
  optimizeCalls,   \* history: Optimize calls of this pass
  oBootstrapCalls, \* history: bootstrapWithUpdates calls of this pass
  oResult,         \* optimizeNetwork's return value
  passes,          \* optimizeNetwork invocations so far
  rerun,           \* history: how this pass repeats the pass before it
  \* ---- navigator: Options and PinMatcher ----
  options,         \* an Options value (NoOptions: none made yet)
  backing,         \* the array behind options.HubPolicies, cap(HubPolicies) long
  copied,          \* what options.Copy() returned (NoOptions: not called)
  matcher,         \* the PinMatcher compiled from options
  copyMatcher,     \* the PinMatcher compiled from the copy
  query,           \* the last call of matcher: pin and outcome
  copyQuery,       \* the last call of copyMatcher: pin and outcome
  \* ---- terminal: Msg, Pack and Consume ----
  pool,            \* the messages made: slot -> Msg (NoPoolMsg: not made)
  batched,         \* history: slot -> the messages it consumed, in order
  lastConsume      \* history: the last Consume call, how it began and ended

craneVars == <<terminals, everRegistered, overwritten, abandonCalls,
               controllerMsgs, terminalMsgs, msgs, sent, craneCtxDone,
               workerCtxDone, workers, cpc, cTerm, cData, cMsg, cResult,
               rpc, rID, initsHandled, rErr>>

homeVars == <<hpc, ctxDone, homePolicy, candidates, found, tries, err, hResult,
              findCalls, bootstrapCalls, connectLog, connectResults>>

connectVars == <<kpc, dst, exceptions, crane, craneStops, success, authEnded,
                 timerFired, authObs, setHomeLog, assignLog, kSite, kResult>>

optVars == <<opc, cranes, now, result, idx, createdConnections,
             attemptedConnections, attemptLog, marked, unmarked, refreshed,
             optimizeCalls, oBootstrapCalls, oResult, passes, rerun>>

matchVars == <<options, backing, copied, matcher, copyMatcher, query,
               copyQuery>>

msgVars == <<pool, batched, lastConsume>>

vars == <<craneVars, homeVars, connectVars, optVars, matchVars, msgVars>>

\* What a step of one subsystem leaves alone: the other subsystems.
restOfCrane == <<homeVars, connectVars, optVars, matchVars, msgVars>>
restOfHome == <<craneVars, optVars, matchVars, msgVars>>
restOfOpt == <<craneVars, homeVars, connectVars, matchVars, msgVars>>
restOfMatch == <<craneVars, homeVars, connectVars, optVars, msgVars>>
restOfMsg == <<craneVars, homeVars, connectVars, optVars, matchVars>>

(***************************************************************************)
(* Terminals and messages.                                                 *)
(***************************************************************************)
NoTerm == [tid |-> 0, id |-> 0, remote |-> FALSE]

\* A message: by/owner say which call created it; finished counts the
\* FinishUnit calls on its unit; dropped: the last reference to it is gone.
NoMsg == [made |-> FALSE, by |-> "none", owner |-> 0, FlowID |-> 0,
          Type |-> "none", Data |-> <<>>, finished |-> 0, dropped |-> FALSE]

\* terminal.NewEmptyMsg: Type is Data, Data unset, fresh unit.
NewEmptyMsg(by, owner) ==
  [NoMsg EXCEPT !.made = TRUE, !.by = by, !.owner = owner, !.Type = "Data"]

\* terminal.NewMsg(data): Type is Data, fresh unit.
NewMsg(by, data) ==
  [NoMsg EXCEPT !.made = TRUE, !.by = by, !.Type = "Data", !.Data = data]

\* err.Pack(): the packed form of a terminal error.
PackErr(e) == <<"packed", e>>

\* Crane.setTerminal: store the terminal under its ID.
setTerminal(tbl, t) == [tbl EXCEPT ![t.id] = t]

\* Crane.AbandonTerminal(id, err): remove the terminal from the table.
AbandonTerminal(tbl, id) == [tbl EXCEPT ![id] = NoTerm]

\* Terminal objects that a store of t into tbl replaces while they are live.
Replaced(tbl, t) ==
  IF tbl[t.id] # NoTerm /\ tbl[t.id] # t THEN {tbl[t.id].tid} ELSE {}

HasRoom(ch) == Len(ch) < ChanCap

\* Identities of the objects the calls construct: the unit of the message a
\* caller creates, the unit of the Stop message built for the k-th Init frame,
\* and the terminal objects of the two sides.
CallerUnit(c) == c
ReaderUnit(k) == NumCallers + k
LocalTid(c) == c
RemoteTid(k) == NumCallers + k
ForeignUnit == 0

\* An enqueue of message u on channel ch; regd: the sender's terminal had
\* been registered by then.
SendEvent(ch, u, regd) == [ch |-> ch, unit |-> u, regd |-> regd]

(***************************************************************************)
(* Crane: initial state.                                                   *)
(***************************************************************************)
CraneAtStart ==
  /\ terminals = [f \in FlowIDs |-> NoTerm]
  /\ everRegistered = {}
  /\ overwritten = {}
  /\ abandonCalls = {}
  /\ controllerMsgs = <<>>
  /\ terminalMsgs = <<>>
  /\ msgs = [u \in UnitIDs |-> NoMsg]
  /\ sent = {}
  /\ craneCtxDone = FALSE
  /\ workerCtxDone = FALSE
  /\ workers = {}
  /\ cpc = [c \in Callers |-> "idle"]
  /\ cTerm = [c \in Callers |-> NoTerm]
  /\ cData = [c \in Callers |-> <<>>]
  /\ cMsg = [c \in Callers |-> 0]
  /\ cResult = [c \in Callers |-> "none"]
  /\ rpc = "idle"
  /\ rID = 0
  /\ initsHandled = 0
  /\ rErr = "none"
(***************************************************************************)
(* Local side: a caller builds a local terminal, then establishes it.      *)
(***************************************************************************)
\* docks.NewLocalCraneTerminal: the crane assigns the flow ID; an ID held by a
\* registered terminal or by another local terminal under construction is
\* not handed out.
NewLocalCraneTerminal(c, f) ==
  /\ cpc[c] = "idle"
  /\ terminals[f] = NoTerm
  /\ \A o \in Callers : cpc[o] \in {"created", "select"} => cTerm[o].id # f
  /\ cTerm' = [cTerm EXCEPT ![c] = [tid |-> LocalTid(c), id |-> f, remote |-> FALSE]]
  /\ cData' = [cData EXCEPT ![c] = InitDataOf(c)]
  /\ cpc' = [cpc EXCEPT ![c] = "created"]
  /\ UNCHANGED <<restOfCrane, terminals, everRegistered, overwritten, abandonCalls,
                 controllerMsgs, terminalMsgs, msgs, sent, craneCtxDone, workerCtxDone, workers, cMsg, cResult,
                 rpc, rID, initsHandled, rErr>>

\* EstablishNewTerminal, up to the select: create the Init message and
\* register the terminal.
EstablishNewTerminal(c) ==
  /\ cpc[c] = "created"
  /\ msgs' = [msgs EXCEPT ![CallerUnit(c)] =
               [NewEmptyMsg("EstablishNewTerminal", c) EXCEPT
                  !.FlowID = cTerm[c].id, !.Type = "Init", !.Data = cData[c]]]
  /\ cMsg' = [cMsg EXCEPT ![c] = CallerUnit(c)]
  /\ terminals' = setTerminal(terminals, cTerm[c])
  /\ everRegistered' = everRegistered \cup {cTerm[c].tid}
  /\ overwritten' = overwritten \cup Replaced(terminals, cTerm[c])
  /\ cpc' = [cpc EXCEPT ![c] = "select"]
  /\ UNCHANGED <<restOfCrane, abandonCalls, controllerMsgs, terminalMsgs, sent,
                 craneCtxDone, workerCtxDone, workers, cTerm, cData, cResult,
                 rpc, rID, initsHandled, rErr>>

\* The channel the Init message is sent on.
InitChannel == "controllerMsgs"

\* select case crane.controllerMsgs <- msg: return nil.
EstablishNewTerminalSent(c) ==
  /\ cpc[c] = "select"
  /\ IF InitChannel = "controllerMsgs"
       THEN /\ HasRoom(controllerMsgs)
            /\ controllerMsgs' = Append(controllerMsgs, cMsg[c])
            /\ UNCHANGED terminalMsgs
       ELSE /\ HasRoom(terminalMsgs)
            /\ terminalMsgs' = Append(terminalMsgs, cMsg[c])
            /\ UNCHANGED controllerMsgs
  /\ sent' = sent \cup
       {SendEvent(InitChannel, cMsg[c], cTerm[c].tid \in everRegistered)}
  /\ cResult' = [cResult EXCEPT ![c] = "nil"]
  /\ cpc' = [cpc EXCEPT ![c] = "returned"]
  /\ UNCHANGED <<restOfCrane, terminals, everRegistered, overwritten, abandonCalls,
                 msgs, craneCtxDone, workerCtxDone, workers, cTerm,
                 cData, cMsg, rpc, rID, initsHandled, rErr>>

\* The cancelled branch without its AbandonTerminal call.
OnCancelledKeepsTerminal(tbl, c, id) == [table |-> tbl, calls |-> {}]

\* The cancelled branch's call crane.AbandonTerminal(localTerm.ID(), ...):
\* the flow table after it, and the call as recorded.
OnCancelled(tbl, c, id) ==
  [table |-> AbandonTerminal(tbl, id), calls |-> {<<c, id>>}]

\* select case <-crane.ctx.Done(): abandon the terminal, return ErrStopping.
\* The message goes out of scope with its unit unfinished.
EstablishNewTerminalAborted(c) ==
  /\ cpc[c] = "select"
  /\ craneCtxDone
  /\ terminals' = OnCancelled(terminals, c, cTerm[c].id).table
  /\ abandonCalls' = abandonCalls \cup OnCancelled(terminals, c, cTerm[c].id).calls
  /\ msgs' = [msgs EXCEPT ![cMsg[c]].dropped = TRUE]
  /\ cResult' = [cResult EXCEPT ![c] = "ErrStopping"]
  /\ cpc' = [cpc EXCEPT ![c] = "returned"]
  /\ UNCHANGED <<restOfCrane, everRegistered, overwritten, controllerMsgs,
                 terminalMsgs, sent, craneCtxDone, workerCtxDone,
                 workers, cTerm, cData, cMsg, rpc, rID, initsHandled, rErr>>


(***************************************************************************)
(* Remote side: the reader dispatches an Init frame to establishTerminal.  *)
(***************************************************************************)
\* The reader's dispatch of an inbound Init frame: establishTerminal is
\* called for a flow ID the table does not hold.
HandleInitFrame(f) ==
  /\ rpc = "idle"
  /\ ~craneCtxDone
  /\ initsHandled < MaxInits
  /\ terminals[f] = NoTerm
  /\ rpc' = "establish"
  /\ rID' = f
  /\ initsHandled' = initsHandled + 1
  /\ UNCHANGED <<restOfCrane, terminals, everRegistered, overwritten, abandonCalls,
                 controllerMsgs, terminalMsgs, msgs, sent, craneCtxDone, workerCtxDone, workers, cpc, cTerm, cData,
                 cMsg, cResult, rErr>>

\* establishTerminal, NewRemoteCraneTerminal succeeded: register the terminal.
establishTerminalOK ==
  /\ rpc = "establish"
  /\ LET newTerminal == [tid |-> RemoteTid(initsHandled), id |-> rID, remote |-> TRUE] IN
       /\ terminals' = setTerminal(terminals, newTerminal)
       /\ everRegistered' = everRegistered \cup {newTerminal.tid}
       /\ overwritten' = overwritten \cup Replaced(terminals, newTerminal)
  /\ rpc' = "idle"
  /\ rErr' = "nil"
  /\ UNCHANGED <<restOfCrane, abandonCalls, controllerMsgs, terminalMsgs, msgs, sent,
                 craneCtxDone, workerCtxDone, workers, cpc, cTerm,
                 cData, cMsg, cResult, rID, initsHandled>>

\* An abandon message that keeps what NewMsg gave it.
AbandonMsgUnaddressed(id, e) == NewMsg("establishTerminal", PackErr(e))

\* establishTerminal's abandon message (lines 64-66).
AbandonMsg(id, e) ==
  [NewMsg("establishTerminal", PackErr(e)) EXCEPT
     !.FlowID = id, !.Type = "Stop"]

\* establishTerminal, NewRemoteCraneTerminal failed with err: build the Stop
\* message and send it directly, or hand it to an "abandon terminal" worker.
establishTerminalFailed(e) ==
  /\ rpc = "establish"
  /\ msgs' = [msgs EXCEPT ![ReaderUnit(initsHandled)] = AbandonMsg(rID, e)]
  /\ IF HasRoom(terminalMsgs)
       THEN /\ terminalMsgs' = Append(terminalMsgs, ReaderUnit(initsHandled))
            /\ sent' = sent \cup
                 {SendEvent("terminalMsgs", ReaderUnit(initsHandled), FALSE)}
            /\ UNCHANGED workers
       ELSE /\ workers' = workers \cup {ReaderUnit(initsHandled)}
            /\ UNCHANGED <<restOfCrane, terminalMsgs, sent>>
  /\ rpc' = "idle"
  /\ rErr' = e
  /\ UNCHANGED <<restOfCrane, terminals, everRegistered, overwritten, abandonCalls,
                 controllerMsgs, craneCtxDone, workerCtxDone, cpc, cTerm,
                 cData, cMsg, cResult, rID, initsHandled>>

\* The worker's select case crane.terminalMsgs <- msg.
WorkerSent(u) ==
  /\ u \in workers
  /\ HasRoom(terminalMsgs)
  /\ terminalMsgs' = Append(terminalMsgs, u)
  /\ sent' = sent \cup {SendEvent("terminalMsgs", u, FALSE)}
  /\ workers' = workers \ {u}
  /\ UNCHANGED <<restOfCrane, terminals, everRegistered, overwritten, abandonCalls,
                 controllerMsgs, msgs, craneCtxDone, workerCtxDone,
                 cpc, cTerm, cData, cMsg, cResult, rpc, rID, initsHandled, rErr>>

\* The worker's select case <-ctx.Done(): return nil; the message goes out of
\* scope with its unit unfinished.
WorkerCancelled(u) ==
  /\ u \in workers
  /\ workerCtxDone
  /\ workers' = workers \ {u}
  /\ msgs' = [msgs EXCEPT ![u].dropped = TRUE]
  /\ UNCHANGED <<restOfCrane, terminals, everRegistered, overwritten, abandonCalls,
                 controllerMsgs, terminalMsgs, sent, craneCtxDone,
                 workerCtxDone, cpc, cTerm, cData, cMsg, cResult, rpc, rID,
                 initsHandled, rErr>>

(***************************************************************************)
(* Environment of the two functions: the writer loop draining the send     *)
(* channels, terminals abandoned by their owners, and cancellation.        *)
(***************************************************************************)
WriterTakesController ==
  /\ controllerMsgs # <<>>
  /\ controllerMsgs' = Tail(controllerMsgs)
  /\ UNCHANGED <<restOfCrane, terminals, everRegistered, overwritten, abandonCalls,
                 terminalMsgs, msgs, sent, craneCtxDone,
                 workerCtxDone, workers, cpc, cTerm, cData, cMsg, cResult,
                 rpc, rID, initsHandled, rErr>>

WriterTakesTerminal ==
  /\ terminalMsgs # <<>>
  /\ terminalMsgs' = Tail(terminalMsgs)
  /\ UNCHANGED <<restOfCrane, terminals, everRegistered, overwritten, abandonCalls,
                 controllerMsgs, msgs, sent, craneCtxDone,
                 workerCtxDone, workers, cpc, cTerm, cData, cMsg, cResult,
                 rpc, rID, initsHandled, rErr>>

\* A terminal enqueues a message of its own on terminalMsgs (ForeignUnit
\* stands for a message that neither function created).
TerminalTraffic ==
  /\ HasRoom(terminalMsgs)
  /\ terminalMsgs' = Append(terminalMsgs, ForeignUnit)
  /\ UNCHANGED <<restOfCrane, terminals, everRegistered, overwritten, abandonCalls,
                 controllerMsgs, msgs, sent, craneCtxDone, workerCtxDone,
                 workers, cpc, cTerm, cData, cMsg, cResult, rpc, rID,
                 initsHandled, rErr>>

\* A registered terminal is abandoned by its owner (stop, idle timeout).
TerminalAbandoned(f) ==
  /\ terminals[f] # NoTerm
  /\ terminals' = AbandonTerminal(terminals, f)
  /\ UNCHANGED <<restOfCrane, everRegistered, overwritten, abandonCalls,
                 controllerMsgs, terminalMsgs, msgs, sent, craneCtxDone, workerCtxDone, workers, cpc, cTerm, cData,
                 cMsg, cResult, rpc, rID, initsHandled, rErr>>

CancelCrane ==
  /\ ~craneCtxDone
  /\ craneCtxDone' = TRUE
  /\ UNCHANGED <<restOfCrane, terminals, everRegistered, overwritten, abandonCalls,
                 controllerMsgs, terminalMsgs, msgs, sent, workerCtxDone, workers, cpc, cTerm, cData, cMsg, cResult,
                 rpc, rID, initsHandled, rErr>>

CancelWorkers ==
  /\ ~workerCtxDone
  /\ workerCtxDone' = TRUE
  /\ UNCHANGED <<restOfCrane, terminals, everRegistered, overwritten, abandonCalls,
                 controllerMsgs, terminalMsgs, msgs, sent, craneCtxDone, workers, cpc, cTerm, cData, cMsg, cResult,
                 rpc, rID, initsHandled, rErr>>

NextCrane ==
  \/ \E c \in Callers, f \in FlowIDs : NewLocalCraneTerminal(c, f)
  \/ \E c \in Callers : EstablishNewTerminal(c)
  \/ \E c \in Callers : EstablishNewTerminalSent(c)
  \/ \E c \in Callers : EstablishNewTerminalAborted(c)
  \/ \E f \in FlowIDs : HandleInitFrame(f)
  \/ establishTerminalOK
  \/ \E e \in RemoteErrs : establishTerminalFailed(e)
  \/ \E u \in UnitIDs : WorkerSent(u)
  \/ \E u \in UnitIDs : WorkerCancelled(u)
  \/ WriterTakesController
  \/ WriterTakesTerminal
  \/ TerminalTraffic
  \/ \E f \in FlowIDs : TerminalAbandoned(f)
  \/ CancelCrane
  \/ CancelWorkers

(***************************************************************************)
(* Captain: errors.  An error is the chain of its layers, outermost first; *)
(* the nil error is the empty chain.  A layer carries the error's code,    *)
(* its message and the hub it is about.                                    *)
(***************************************************************************)
Nil == <<>>
Layer(code, msg, hub) == [code |-> code, msg |-> msg, hub |-> hub]

\* errors.New / a terminal error value.
NewErr(code, msg, hub) == <<Layer(code, msg, hub)>>

\* (*terminal.Error).Wrap and .With: a new layer with the same code.
Wrap(e, msg) == <<Layer(e[1].code, msg, e[1].hub)>> \o e

\* fmt.Errorf("...: %w", e): a new layer around e.
Errorf(msg, e) == <<Layer("error", msg, e[1].hub)>> \o e

\* errors.Is(e, code) and (*terminal.Error).Is(code).
Is(e, code) == \E i \in 1..Len(e) : e[i].code = code

ErrAllHomeHubsExcluded == NewErr("ErrAllHomeHubsExcluded", "all home hubs are excluded", "")

(***************************************************************************)
(* Captain: bounds and inputs of establishHomeHub.                         *)
(***************************************************************************)
MaxCandidates == 2   \* candidates FindNearestHubs returns (the code asks for 10)
MaxFindCalls  == 3   \* FindNearestHubs calls after which the map is not empty

Hubs == {"H1", "H2", "H3"}

RECURSIVE SeqsOfDistinct(_)
\* The sequences of n distinct hubs.
SeqsOfDistinct(n) ==
  IF n = 0 THEN {<<>>}
  ELSE {Append(q, h) : q \in SeqsOfDistinct(n - 1), h \in Hubs} \cap
       {q \in [1..n -> Hubs] : \A i, j \in 1..n : i # j => q[i] # q[j]}

CandidateLists == UNION {SeqsOfDistinct(n) : n \in 0..MaxCandidates}

\* The home hub policies getHomeHubPolicy can return: empty, or with a rule.
HomePolicies == {<<>>, <<"- *">>}

\* Errors of the collaborators, by code.
FindErrs == {"ErrInternalError"}
CraneErrs == {"ErrStopping", "ErrConnectFailed"}
TerminalErrs == {"ErrInternalError"}
AuthErrs == {"ErrPermissionDenied"}
\* Values authOp.Ended can deliver.
EndedValues == {"ErrExplicitAck", "ErrPermissionDenied", "ErrTimeout"}

HomeAtStart ==
  /\ hpc = "start"
  /\ ctxDone = FALSE
  /\ homePolicy = <<>>
  /\ candidates = <<>>
  /\ found = FALSE
  /\ tries = 0
  /\ err = Nil
  /\ hResult = Nil
  /\ findCalls = 0
  /\ bootstrapCalls = 0
  /\ connectLog = <<>>
  /\ connectResults = <<>>

ConnectAtStart ==
  /\ kpc = "idle"
  /\ dst = ""
  /\ exceptions = "nil"
  /\ crane = "none"
  /\ craneStops = 0
  /\ success = FALSE
  /\ authEnded = "none"
  /\ timerFired = FALSE
  /\ authObs = [ended |-> "none", timer |-> FALSE, ctxDone |-> FALSE]
  /\ setHomeLog = <<>>
  /\ assignLog = <<>>
  /\ kSite = "none"
  /\ kResult = Nil

(***************************************************************************)
(* establishHomeHub.                                                       *)
(***************************************************************************)
\* return e.
HomeReturn(e) ==
  /\ hpc' = "done"
  /\ hResult' = e

\* Lines 32-67: locate the device, get the home policy, build the options.
HomeStart(located, policyErr, policy) ==
  /\ hpc = "start"
  /\ IF ~located
       THEN /\ HomeReturn(NewErr("error", "failed to locate own device", ""))
            /\ UNCHANGED homePolicy
       ELSE IF policyErr
         THEN /\ HomeReturn(NewErr("ErrPolicy", "invalid home hub policy", ""))
              /\ UNCHANGED homePolicy
         ELSE /\ homePolicy' = policy
              /\ hpc' = "findCandidates"
              /\ UNCHANGED hResult
  /\ UNCHANGED <<restOfHome, ctxDone, candidates, found, tries, err, findCalls,
                 bootstrapCalls, connectLog, connectResults, connectVars>>

\* The check without its policy condition.
AllExcludedAnyPolicy(cands, policy) == Len(cands) = 0

\* The check after a successful search: no candidate under a non-empty policy.
AllExcluded(cands, policy) == Len(cands) = 0 /\ Len(policy) > 0

\* findCandidates, FindNearestHubs returned candidates: lines 71-96.
HomeFound(cands) ==
  /\ hpc = "findCandidates"
  /\ findCalls' = findCalls + 1
  /\ candidates' = cands
  /\ found' = TRUE
  /\ err' = Nil
  /\ IF AllExcluded(cands, homePolicy)
       THEN HomeReturn(ErrAllHomeHubsExcluded)
       ELSE /\ hpc' = "loop"
            /\ UNCHANGED hResult
  /\ UNCHANGED <<restOfHome, ctxDone, homePolicy, tries, bootstrapCalls, connectLog,
                 connectResults, connectVars>>

\* findCandidates, FindNearestHubs failed with another error: line 86.
HomeFindFailed(code) ==
  /\ hpc = "findCandidates"
  /\ findCalls' = findCalls + 1
  /\ err' = NewErr(code, "find nearest hubs", "")
  /\ HomeReturn(Errorf("failed to find nearby hubs", err'))
  /\ UNCHANGED <<restOfHome, ctxDone, homePolicy, candidates, found, tries,
                 bootstrapCalls, connectLog, connectResults, connectVars>>

\* findCandidates, FindNearestHubs returned ErrEmptyMap: bootstrap, and on
\* success goto findCandidates (lines 77-83).
HomeEmptyMap(bootstrapOK) ==
  /\ hpc = "findCandidates"
  /\ findCalls < MaxFindCalls - 1
  /\ findCalls' = findCalls + 1
  /\ err' = NewErr("ErrEmptyMap", "map is empty", "")
  /\ bootstrapCalls' = bootstrapCalls + 1
  /\ IF bootstrapOK
       THEN /\ hpc' = "findCandidates"
            /\ UNCHANGED hResult
       ELSE HomeReturn(NewErr("ErrBootstrap", "bootstrap failed", ""))
  /\ UNCHANGED <<restOfHome, ctxDone, homePolicy, candidates, found, tries, connectLog,
                 connectResults, connectVars>>

\* The loop: the next candidate is handed to connectToHomeHub, which sets
\* the firewall exceptions and calls EstablishCrane (lines 97-98, 117-121);
\* without a next candidate the function returns (lines 109-112).
HomeLoop ==
  /\ hpc = "loop"
  /\ kpc \in {"idle", "returned"}
  /\ IF Len(connectLog) < Len(candidates)
       THEN /\ tries' = Len(connectLog)
            /\ dst' = candidates[Len(connectLog) + 1]
            /\ connectLog' = Append(connectLog, dst')
            /\ exceptions' = dst'
            /\ kpc' = "EstablishCrane"
            /\ hpc' = "connect"
            /\ crane' = "none"
            /\ craneStops' = 0
            /\ success' = FALSE
            /\ authEnded' = "none"
            /\ timerFired' = FALSE
            /\ authObs' = [ended |-> "none", timer |-> FALSE, ctxDone |-> FALSE]
            /\ setHomeLog' = <<>>
            /\ assignLog' = <<>>
            /\ kSite' = "none"
            /\ kResult' = Nil
            /\ UNCHANGED hResult
       ELSE /\ IF err # Nil
                 THEN HomeReturn(Errorf("failed to connect to a new home hub", err))
                 ELSE HomeReturn(NewErr("error", "no home hub candidates available", ""))
            /\ UNCHANGED <<restOfHome, tries, connectLog, connectVars>>
  /\ UNCHANGED <<restOfHome, ctxDone, homePolicy, candidates, found, err, findCalls,
                 bootstrapCalls, connectResults>>

\* A walk that goes on after ErrStopping.
StopsWalkNever(e) == FALSE

\* Whether a connect error ends the walk over the candidates.
StopsWalk(e) == Is(e, "ErrStopping")

\* Lines 98-107: connectToHomeHub has returned.
HomeAfterConnect ==
  /\ hpc = "connect"
  /\ kpc = "returned"
  /\ err' = kResult
  /\ connectResults' = Append(connectResults, kResult)
  /\ IF kResult # Nil
       THEN IF StopsWalk(kResult)
              THEN HomeReturn(kResult)
              ELSE /\ hpc' = "loop"
                   /\ UNCHANGED hResult
       ELSE HomeReturn(Nil)
  /\ UNCHANGED <<restOfHome, ctxDone, homePolicy, candidates, found, tries, findCalls,
                 bootstrapCalls, connectLog, connectVars>>

\* The caller's context is cancelled.
CancelCtx ==
  /\ ~ctxDone
  /\ hpc # "done"
  /\ ctxDone' = TRUE
  /\ UNCHANGED <<restOfHome, hpc, homePolicy, candidates, found, tries, err, hResult,
                 findCalls, bootstrapCalls, connectLog, connectResults,
                 connectVars>>

(***************************************************************************)
(* connectToHomeHub.                                                       *)
(***************************************************************************)
\* The deferred functions, in the order they run: the crane after the
\* deferred stop (lines 128-132), and the exceptions after
\* setExceptions(nil, nil) (line 118).
DeferredStopIgnoresSuccess(cr, ok) == IF cr = "up" THEN "stopped" ELSE cr
DeferredStop(cr, ok) == IF cr = "up" /\ ~ok THEN "stopped" ELSE cr
DeferredExceptions(ex) == "nil"

\* return e from the statement site, the success flag being ok.
ConnectReturnWith(site, e, ok) ==
  /\ kpc' = "returned"
  /\ kSite' = site
  /\ kResult' = e
  /\ crane' = DeferredStop(crane, ok)
  /\ craneStops' = IF crane' # crane THEN craneStops + 1 ELSE craneStops
  /\ exceptions' = DeferredExceptions(exceptions)

ConnectReturn(site, e) == ConnectReturnWith(site, e, success)

\* EstablishCrane failed: return err (lines 121-124).
ConnectCraneFailed(code) ==
  /\ kpc = "EstablishCrane"
  /\ code = "ErrStopping" => ctxDone
  /\ ConnectReturn("EstablishCrane", NewErr(code, "establish crane", dst))
  /\ UNCHANGED <<restOfHome, homeVars, dst, success, authEnded, timerFired, authObs,
                 setHomeLog, assignLog>>

\* EstablishCrane succeeded; the gossip query is started (lines 121-138).
ConnectCraneUp ==
  /\ kpc = "EstablishCrane"
  /\ crane' = "up"
  /\ kpc' = "gossip"
  /\ UNCHANGED <<restOfHome, homeVars, dst, exceptions, craneStops, success, authEnded,
                 timerFired, authObs, setHomeLog, assignLog, kSite, kResult>>

\* The wait for the gossip query is over (lines 140-143), and the home
\* terminal is created (line 146).
ConnectGossipOver(terminalErr) ==
  /\ kpc = "gossip"
  /\ IF terminalErr # "nil"
       THEN ConnectReturn("NewLocalCraneTerminal",
              Wrap(NewErr(terminalErr, "new terminal", dst),
                   "failed to create home terminal"))
       ELSE /\ kpc' = "EstablishNewTerminal"
            /\ UNCHANGED <<restOfHome, exceptions, crane, craneStops, kSite, kResult>>
  /\ UNCHANGED <<restOfHome, homeVars, dst, success, authEnded, timerFired, authObs,
                 setHomeLog, assignLog>>

\* NewGossipQueryOp failed and returned no operation: gossipQuery.ctx
\* (line 141) panics; the deferred functions run, nothing is returned.
ConnectGossipPanics ==
  /\ kpc = "gossip"
  /\ kpc' = "panicked"
  /\ kSite' = "panic"
  /\ crane' = DeferredStop(crane, success)
  /\ craneStops' = IF crane' # crane THEN craneStops + 1 ELSE craneStops
  /\ exceptions' = DeferredExceptions(exceptions)
  /\ hpc' = "panicked"
  /\ UNCHANGED <<restOfHome, ctxDone, homePolicy, candidates, found, tries, err, hResult,
                 findCalls, bootstrapCalls, connectLog, connectResults, dst,
                 success, authEnded, timerFired, authObs, setHomeLog,
                 assignLog, kResult>>

\* crane.EstablishNewTerminal returned (lines 150-153); on success
\* access.AuthorizeToTerminal is called (lines 156-159).
ConnectEstablished(establishErr, authErr) ==
  /\ kpc = "EstablishNewTerminal"
  /\ IF establishErr # "nil"
       THEN ConnectReturn("EstablishNewTerminal",
              Wrap(NewErr(establishErr, "", dst), "failed to connect home terminal"))
       ELSE IF authErr # "nil"
         THEN ConnectReturn("AuthorizeToTerminal",
                Wrap(NewErr(authErr, "authorize", dst), "failed to authorize"))
         ELSE /\ kpc' = "authWait"
              /\ UNCHANGED <<restOfHome, exceptions, crane, craneStops, kSite, kResult>>
  /\ UNCHANGED <<restOfHome, homeVars, dst, success, authEnded, timerFired, authObs,
                 setHomeLog, assignLog>>

\* The auth operation ends: a value arrives on authOp.Ended.
AuthEnds(v) ==
  /\ kpc = "authWait"
  /\ authEnded = "none"
  /\ authEnded' = v
  /\ UNCHANGED <<restOfHome, homeVars, kpc, dst, exceptions, crane, craneStops, success,
                 timerFired, authObs, setHomeLog, assignLog, kSite, kResult>>

\* time.After(3 * time.Second) fires.
TimerFires ==
  /\ kpc = "authWait"
  /\ ~timerFired
  /\ timerFired' = TRUE
  /\ UNCHANGED <<restOfHome, homeVars, kpc, dst, exceptions, crane, craneStops, success,
                 authEnded, authObs, setHomeLog, assignLog, kSite, kResult>>

\* What the select sees when it resolves.
Observed == [ended |-> authEnded, timer |-> timerFired, ctxDone |-> ctxDone]

\* An auth wait that takes any delivered value for success.
AuthAcceptedAny(v) == TRUE

\* Whether the value received from authOp.Ended lets the call go on.
AuthAccepted(v) == v = "ErrExplicitAck"

\* select case tErr := <-authOp.Ended (lines 161-164).
ConnectAuthEnded ==
  /\ kpc = "authWait"
  /\ authEnded # "none"
  /\ authObs' = Observed
  /\ IF AuthAccepted(authEnded)
       THEN /\ kpc' = "SetHome"
            /\ UNCHANGED <<restOfHome, exceptions, crane, craneStops, kSite, kResult>>
       ELSE ConnectReturn("Ended",
              Wrap(NewErr(authEnded, "auth", dst), "failed to authenticate to"))
  /\ UNCHANGED <<restOfHome, homeVars, dst, success, authEnded, timerFired, setHomeLog,
                 assignLog>>

\* The error the timeout case returns.
TimeoutErr(hub) ==
  Wrap(NewErr("ErrTimeout", "", hub), "timed out waiting for auth to complete")

\* select case <-time.After(3 * time.Second) (lines 165-166).
ConnectAuthTimeout ==
  /\ kpc = "authWait"
  /\ timerFired
  /\ authObs' = Observed
  /\ ConnectReturn("timeout", TimeoutErr(dst))
  /\ UNCHANGED <<restOfHome, homeVars, dst, success, authEnded, timerFired, setHomeLog,
                 assignLog>>

\* select case <-ctx.Done() (lines 167-168).
ConnectAuthCancelled ==
  /\ kpc = "authWait"
  /\ ctxDone
  /\ authObs' = Observed
  /\ ConnectReturn("ctx.Done", NewErr("ErrStopping", "", dst))
  /\ UNCHANGED <<restOfHome, homeVars, dst, success, authEnded, timerFired, setHomeLog,
                 assignLog>>

\* navigator.Main.SetHome, docks.AssignCrane, success = true (lines 172-181).
ConnectSetHome(ok) ==
  /\ kpc = "SetHome"
  /\ setHomeLog' = Append(setHomeLog, ok)
  /\ IF ~ok
       THEN /\ ConnectReturn("SetHome",
                 NewErr("error", "failed to set home hub on map", dst))
            /\ UNCHANGED <<restOfHome, success, assignLog>>
       ELSE /\ assignLog' = Append(assignLog, dst)
            /\ success' = TRUE
            /\ ConnectReturnWith("end", Nil, TRUE)
  /\ UNCHANGED <<restOfHome, homeVars, dst, authEnded, timerFired, authObs>>

NextHome ==
  \/ \E located, policyErr \in BOOLEAN, policy \in HomePolicies :
       HomeStart(located, policyErr, policy)
  \/ \E cands \in CandidateLists : HomeFound(cands)
  \/ \E code \in FindErrs : HomeFindFailed(code)
  \/ \E ok \in BOOLEAN : HomeEmptyMap(ok)
  \/ HomeLoop
  \/ HomeAfterConnect
  \/ CancelCtx
  \/ \E code \in CraneErrs : ConnectCraneFailed(code)
  \/ ConnectCraneUp
  \/ \E e \in TerminalErrs \cup {"nil"} : ConnectGossipOver(e)
  \/ ConnectGossipPanics
  \/ \E e \in {"nil", "ErrStopping"}, a \in AuthErrs \cup {"nil"} :
       ConnectEstablished(e, a)
  \/ \E v \in EndedValues : AuthEnds(v)
  \/ TimerFires
  \/ ConnectAuthEnded
  \/ ConnectAuthTimeout
  \/ ConnectAuthCancelled
  \/ \E ok \in BOOLEAN : ConnectSetHome(ok)

(***************************************************************************)
(* Captain: optimizeNetwork.                                               *)
(***************************************************************************)
MaxSuggestions   == 2   \* length of result.SuggestedConnections
MaxMaxConnect    == 2   \* largest result.MaxConnect
MaxPasses        == 2   \* optimizeNetwork invocations
MaxOptimizeCalls == 3   \* Optimize calls after which the map is not empty
MaxClock         == 6   \* hours the clock runs

\* const stopCraneAfterBeingUnsuggestedFor = 6 * time.Hour
stopCraneAfterBeingUnsuggestedFor == 6

\* Hubs lanes are suggested to.
LaneHubs == {"H1", "H2"}

\* The zero time.Time of a NetState never suggested.
NeverSuggested == 0 - stopCraneAfterBeingUnsuggestedFor - 1

NoCrane == [assigned |-> FALSE, mine |-> FALSE, stopped |-> FALSE,
            stopping |-> FALSE, lastSuggestedAt |-> NeverSuggested]

\* A crane as EstablishCrane / EstablishPublicLane assigns it.
NewCrane(mine) == [NoCrane EXCEPT !.assigned = TRUE, !.mine = mine]

NoResult == [SuggestedConnections |-> <<>>, MaxConnect |-> 0,
             StopOthers |-> FALSE]

\* Optimize's suggestions over a list of hubs: an entry is marked Duplicate
\* when its hub is already suggested by an earlier entry.
Suggest(hubs) ==
  [i \in 1..Len(hubs) |->
     [Hub |-> hubs[i], Duplicate |-> \E j \in 1..(i - 1) : hubs[j] = hubs[i]]]

SuggestionLists ==
  UNION {{Suggest(q) : q \in [1..n -> LaneHubs]} : n \in 0..MaxSuggestions}

\* How a pass repeats the pass before it (history):
\*   "off"       a crane was assigned, stopped or unassigned by others since
\*               the pass before began, or no pass has returned nil
\*   "first"     a pass is running undisturbed; it repeats none
\*   "done"      an undisturbed pass has returned nil
\*   "again"     a pass follows an undisturbed one; Optimize has not returned
\*   "same"      Optimize returned the result it returned in the pass before
\* "doneAll", "againAll", "sameAll": the same, and the pass before ended
\* with a crane assigned to every non-duplicate suggested hub.
RerunAtStart(r, publicIdentity) ==
  IF ~publicIdentity THEN "off"
  ELSE IF r = "done" THEN "again"
  ELSE IF r = "doneAll" THEN "againAll"
  ELSE "first"

RerunAtResult(r, before, after) ==
  IF r = "off" THEN "off"
  ELSE IF r = "again" /\ after = before THEN "same"
  ELSE IF r = "againAll" /\ after = before THEN "sameAll"
  ELSE "first"

RerunAtReturn(r, covered) ==
  IF r = "off" THEN "off"
  ELSE IF covered THEN "doneAll"
  ELSE "done"

\* Every non-duplicate suggestion of res names a hub with an assigned crane.
Covered(res, cs) ==
  \A i \in 1..Len(res.SuggestedConnections) :
    res.SuggestedConnections[i].Duplicate
      \/ cs[res.SuggestedConnections[i].Hub].assigned

OptAtStart ==
  /\ opc = "idle"
  /\ cranes = [h \in LaneHubs |-> NoCrane]
  /\ now = 0
  /\ result = NoResult
  /\ idx = 0
  /\ createdConnections = 0
  /\ attemptedConnections = 0
  /\ attemptLog = <<>>
  /\ marked = {}
  /\ unmarked = {}
  /\ refreshed = {}
  /\ optimizeCalls = 0
  /\ oBootstrapCalls = 0
  /\ oResult = Nil
  /\ passes = 0
  /\ rerun = "off"

\* A suggestion that leaves the crane's timestamp as it was.
UpdateLastSuggestedAtNot(c, t) == c

\* crane.NetState.UpdateLastSuggestedAt()
UpdateLastSuggestedAt(c, t) == [c EXCEPT !.lastSuggestedAt = t]

\* An AbortStopping that leaves the mark in place.
AbortStoppingKeepsMark(c) == c

\* crane.AbortStopping(): clears the mark; true when there was one.
AbortStopping(c) == [c EXCEPT !.stopping = FALSE]

\* crane.MarkStopping(): sets the mark; true when there was none.
MarkStopping(c) == [c EXCEPT !.stopping = TRUE]

\* optimizeNetwork is invoked (lines 184-187).
OptStart(publicIdentity) ==
  /\ opc \in {"idle", "done"}
  /\ passes < MaxPasses
  /\ passes' = passes + 1
  /\ opc' = IF publicIdentity THEN "optimize" ELSE "done"
  /\ idx' = 0
  /\ createdConnections' = 0
  /\ attemptedConnections' = 0
  /\ attemptLog' = <<>>
  /\ marked' = {}
  /\ unmarked' = {}
  /\ refreshed' = {}
  /\ optimizeCalls' = 0
  /\ oBootstrapCalls' = 0
  /\ oResult' = Nil
  /\ rerun' = RerunAtStart(rerun, publicIdentity)
  /\ UNCHANGED <<restOfOpt, cranes, now, result>>

\* optimize: Optimize returned a result (lines 190, 204-206).
OptOptimized(suggestions, maxConnect, stopOthers) ==
  /\ opc = "optimize"
  /\ optimizeCalls' = optimizeCalls + 1
  /\ result' = [SuggestedConnections |-> suggestions,
                MaxConnect |-> maxConnect, StopOthers |-> stopOthers]
  /\ idx' = 1
  /\ opc' = "suggestions"
  /\ rerun' = RerunAtResult(rerun, result, result')
  /\ UNCHANGED <<restOfOpt, cranes, now, createdConnections,
                 attemptedConnections, attemptLog, marked, unmarked,
                 refreshed, oBootstrapCalls, oResult, passes>>

\* optimize: Optimize failed with another error than ErrEmptyMap (line 201).
OptOptimizeFailed(code) ==
  /\ opc = "optimize"
  /\ optimizeCalls' = optimizeCalls + 1
  /\ oResult' = NewErr(code, "optimize", "")
  /\ opc' = "done"
  /\ rerun' = "off"
  /\ UNCHANGED <<restOfOpt, cranes, now, result, idx, createdConnections,
                 attemptedConnections, attemptLog, marked, unmarked,
                 refreshed, oBootstrapCalls, passes>>

\* optimize: Optimize returned ErrEmptyMap: bootstrap, and on success goto
\* optimize (lines 192-199).
OptEmptyMap(bootstrapOK) ==
  /\ opc = "optimize"
  /\ optimizeCalls < MaxOptimizeCalls - 1
  /\ optimizeCalls' = optimizeCalls + 1
  /\ oBootstrapCalls' = oBootstrapCalls + 1
  /\ IF bootstrapOK
       THEN /\ opc' = "optimize"
            /\ UNCHANGED oResult
       ELSE /\ opc' = "done"
            /\ oResult' = NewErr("ErrBootstrap", "bootstrap failed", "")
  /\ rerun' = IF bootstrapOK THEN rerun ELSE "off"
  /\ UNCHANGED <<restOfOpt, cranes, now, result, idx, createdConnections,
                 attemptedConnections, attemptLog, marked, unmarked,
                 refreshed, passes>>

\* A loop that takes no hub to have a crane.
HasCraneNever(c) == FALSE

\* Whether docks.GetAssignedCrane returned a crane (lines 214-215).
HasCrane(c) == c.assigned

\* A loop in which one lane more than MaxConnect may be established.
MayConnectOneMore(created, maxConnect) == created <= maxConnect

\* Whether the loop may establish another lane (line 225).
MayConnect(created, maxConnect) == created < maxConnect

\* A loop that does not count the lanes it establishes.
CreatedAfterUncounted(created, laneOK) == created

\* The loop's counter of established lanes after an attempt (line 232).
CreatedAfter(created, laneOK) == IF laneOK THEN created + 1 ELSE created

\* A loop that a failed EstablishPublicLane ends.
AfterAttemptAborts(laneOK) == IF laneOK THEN "suggestions" ELSE "done"

\* Where the pass is after an EstablishPublicLane call: in the loop, whether
\* the call failed or not (lines 229-237).
AfterAttempt(laneOK) == "suggestions"

\* One iteration of the loop over result.SuggestedConnections (lines
\* 207-238); laneOK: EstablishPublicLane succeeds, if it is called.
OptSuggestion(laneOK) ==
  /\ opc = "suggestions"
  /\ idx <= Len(result.SuggestedConnections)
  /\ idx' = idx + 1
  /\ LET connectTo == result.SuggestedConnections[idx]
         h == connectTo.Hub
     IN
       IF connectTo.Duplicate
         THEN UNCHANGED <<opc, cranes, createdConnections,
                          attemptedConnections, attemptLog, unmarked,
                          refreshed>>
       ELSE IF HasCrane(cranes[h])
         THEN /\ cranes' = [cranes EXCEPT ![h] =
                   AbortStopping(UpdateLastSuggestedAt(cranes[h], now))]
              /\ refreshed' = refreshed \cup {h}
              /\ unmarked' = IF cranes[h].stopping THEN unmarked \cup {h}
                                                   ELSE unmarked
              /\ UNCHANGED <<opc, createdConnections, attemptedConnections,
                             attemptLog>>
       ELSE IF MayConnect(createdConnections, result.MaxConnect)
         THEN /\ attemptedConnections' = attemptedConnections + 1
              /\ opc' = AfterAttempt(laneOK)
              /\ attemptLog' = Append(attemptLog, [Hub |-> h, ok |-> laneOK])
              /\ createdConnections' = CreatedAfter(createdConnections, laneOK)
              /\ IF laneOK
                   THEN /\ cranes' = [cranes EXCEPT ![h] =
                             UpdateLastSuggestedAt(NewCrane(TRUE), now)]
                        /\ refreshed' = refreshed \cup {h}
                   ELSE UNCHANGED <<cranes, refreshed>>
              /\ UNCHANGED unmarked
       ELSE UNCHANGED <<opc, cranes, createdConnections,
                        attemptedConnections, attemptLog, unmarked, refreshed>>
  /\ UNCHANGED <<restOfOpt, now, result, marked, optimizeCalls,
                 oBootstrapCalls, oResult, passes, rerun>>

\* A retirement loop that does not skip cranes built by others.
RetiresAnyOwner(c, t) ==
  /\ ~(c.stopped \/ c.stopping)
  /\ ~(c.lastSuggestedAt > t - stopCraneAfterBeingUnsuggestedFor)

\* Whether the retirement loop marks crane c at time t (lines 258-273).
Retires(c, t) ==
  /\ c.mine
  /\ ~(c.stopped \/ c.stopping)
  /\ ~(c.lastSuggestedAt > t - stopCraneAfterBeingUnsuggestedFor)

\* The end of the loop, the retirement of unsuggested cranes and return nil
\* (lines 240-277).
OptRetire ==
  /\ opc = "suggestions"
  /\ idx > Len(result.SuggestedConnections)
  /\ LET retired == IF result.StopOthers
                      THEN {h \in LaneHubs : cranes[h].assigned /\ Retires(cranes[h], now)}
                      ELSE {}
     IN /\ cranes' = [h \in LaneHubs |->
                        IF h \in retired THEN MarkStopping(cranes[h]) ELSE cranes[h]]
        /\ marked' = marked \cup retired
  /\ oResult' = Nil
  /\ opc' = "done"
  /\ rerun' = RerunAtReturn(rerun, Covered(result, cranes'))
  /\ UNCHANGED <<restOfOpt, now, result, idx, createdConnections,
                 attemptedConnections, attemptLog, unmarked, refreshed,
                 optimizeCalls, oBootstrapCalls, passes>>

\* Time passes between two passes: just less than the retirement period, or
\* all of it.
Tick(d) ==
  /\ opc \in {"idle", "done"}
  /\ now + d <= MaxClock
  /\ now' = now + d
  /\ UNCHANGED <<restOfOpt, opc, cranes, result, idx, createdConnections,
                 attemptedConnections, attemptLog, marked, unmarked,
                 refreshed, optimizeCalls, oBootstrapCalls, oResult, passes, rerun>>

\* A hub connects to us: a crane built by others is assigned.
OtherCraneAssigned(h) ==
  /\ ~cranes[h].assigned
  /\ cranes' = [cranes EXCEPT ![h] = NewCrane(FALSE)]
  /\ rerun' = "off"
  /\ UNCHANGED <<restOfOpt, opc, now, result, idx, createdConnections,
                 attemptedConnections, attemptLog, marked, unmarked,
                 refreshed, optimizeCalls, oBootstrapCalls, oResult, passes>>

\* connectToHomeHub assigns the crane it built to the home hub (line 178):
\* an own crane that no pass has suggested.
HomeCraneAssigned(h) ==
  /\ ~cranes[h].assigned
  /\ cranes' = [cranes EXCEPT ![h] = NewCrane(TRUE)]
  /\ rerun' = "off"
  /\ UNCHANGED <<restOfOpt, opc, now, result, idx, createdConnections,
                 attemptedConnections, attemptLog, marked, unmarked,
                 refreshed, optimizeCalls, oBootstrapCalls, oResult, passes>>

\* An assigned crane stops.
CraneStopped(h) ==
  /\ cranes[h].assigned
  /\ ~cranes[h].stopped
  /\ cranes' = [cranes EXCEPT ![h].stopped = TRUE]
  /\ rerun' = "off"
  /\ UNCHANGED <<restOfOpt, opc, now, result, idx, createdConnections,
                 attemptedConnections, attemptLog, marked, unmarked,
                 refreshed, optimizeCalls, oBootstrapCalls, oResult, passes>>

\* A stopped crane is torn down and unassigned; what the pass did to that
\* crane is history of a crane that is no more.
CraneUnassigned(h) ==
  /\ cranes[h].assigned
  /\ cranes[h].stopped
  /\ cranes' = [cranes EXCEPT ![h] = NoCrane]
  /\ marked' = marked \ {h}
  /\ unmarked' = unmarked \ {h}
  /\ refreshed' = refreshed \ {h}
  /\ rerun' = "off"
  /\ UNCHANGED <<restOfOpt, opc, now, result, idx, createdConnections,
                 attemptedConnections, attemptLog, optimizeCalls,
                 oBootstrapCalls, oResult, passes>>

NextOpt ==
  \/ \E publicIdentity \in BOOLEAN : OptStart(publicIdentity)
  \/ \E q \in SuggestionLists, m \in 0..MaxMaxConnect, so \in BOOLEAN :
       OptOptimized(q, m, so)
  \/ \E code \in FindErrs : OptOptimizeFailed(code)
  \/ \E ok \in BOOLEAN : OptEmptyMap(ok)
  \/ \E ok \in BOOLEAN : OptSuggestion(ok)
  \/ OptRetire
  \/ \E d \in {stopCraneAfterBeingUnsuggestedFor - 1,
             stopCraneAfterBeingUnsuggestedFor} : Tick(d)
  \/ \E h \in LaneHubs : OtherCraneAssigned(h)
  \/ \E h \in LaneHubs : HomeCraneAssigned(h)
  \/ \E h \in LaneHubs : CraneStopped(h)
  \/ \E h \in LaneHubs : CraneUnassigned(h)

(***************************************************************************)
(* Navigator: Options, Options.Copy and the PinMatcher of Options.Matcher. *)
(***************************************************************************)
\* PinState is a bit set; a value is the set of the bits that are set.
StateBits == {"Reachable", "Active", "Trusted", "ConnectivityIssues",
              "UsageAsHomeDiscouraged", "UsageAsDestinationDiscouraged",
              "Offline"}

\* The summary states, as far as this model tells their bits apart.
StateSummaryRegard == {"Reachable", "Active"}
StateSummaryDisregard == {"Offline"}

\* PinState.Add, .Remove, .Has and .HasAnyOf.
Add(state, bits) == state \cup bits
Remove(state, bits) == state \ bits
Has(state, bits) == bits \subseteq state
HasAnyOf(state, bits) == state \cap bits # {}

HubTypes == {"HomeHub", "TransitHub", "DestinationHub"}

\* *intel.Entity: the entities told apart, and the nil pointer.
Entities == {"e1", "e2"}
NoEntity == "nil"

\* endpoints.EPResult
EPResults == {"NoMatch", "MatchError", "Denied", "Permitted"}

\* endpoints.Endpoints: the empty list (not set), or a list by the result
\* its Match / MatchMulti gives for each entity.
UnsetPolicy == <<>>
IsSet(policy) == policy # UnsetPolicy
Match(policy, entity) == policy[entity]
Always(r) == [e \in Entities |-> r]
Only(e1, r) == [e \in Entities |-> IF e = e1 THEN r ELSE "NoMatch"]

\* *hub.Intel: nil, or the parsed advisories.
NoIntel == <<>>
Intel(hubAdvisory, homeHubAdvisory, destinationHubAdvisory) ==
  [HubAdvisory |-> hubAdvisory, HomeHubAdvisory |-> homeHubAdvisory,
   DestinationHubAdvisory |-> destinationHubAdvisory]

NoOptions == <<>>
NoMatcher == <<>>
NoQuery == <<>>

\* A slice of the array behind options.HubPolicies (shared), or of an array
\* of its own that append allocated.
SharedSlice(n) == [shared |-> TRUE, len |-> n, own |-> <<>>]
OwnSlice(elems) == [shared |-> FALSE, len |-> Len(elems), own |-> elems]
Elems(slice, arr) == IF slice.shared THEN SubSeq(arr, 1, slice.len)
                                     ELSE slice.own

\* append(slice, more...): in place when the capacity allows, else into a
\* new array.
AppendSlice(slice, arr, more) ==
  IF slice.shared /\ slice.len + Len(more) <= Len(arr)
    THEN [slice |-> SharedSlice(slice.len + Len(more)),
          arr |-> [i \in 1..Len(arr) |->
                     IF i > slice.len /\ i <= slice.len + Len(more)
                       THEN more[i - slice.len] ELSE arr[i]]]
    ELSE [slice |-> OwnSlice(Elems(slice, arr) \o more), arr |-> arr]

\* Options.Copy: the fields it sets; RequireVerifiedOwners is not among
\* them and keeps its zero value.
Copy(o) ==
  [Regard                        |-> o.Regard,
   Disregard                     |-> o.Disregard,
   HubPolicies                   |-> o.HubPolicies,
   CheckHubEntryPolicyWith       |-> o.CheckHubEntryPolicyWith,
   CheckHubExitPolicyWith        |-> o.CheckHubExitPolicyWith,
   RequireVerifiedOwners         |-> <<>>,
   NoDefaults                    |-> o.NoDefaults,
   RequireTrustedDestinationHubs |-> o.RequireTrustedDestinationHubs,
   RoutingProfile                |-> o.RoutingProfile]

\* A Matcher that keeps Active among the states a Home hub must have.
HomeRegardKeepsActive(regard) == Remove(regard, {"Reachable"})

\* The states a Home hub need not have (lines 398-399).
HomeRegard(regard) == Remove(Remove(regard, {"Reachable"}), {"Active"})

\* Options.Matcher, lines 385-412: the states to regard.
CompiledRegard(o, hubType) ==
  LET withDefaults == IF ~o.NoDefaults
                        THEN Add(o.Regard, StateSummaryRegard)
                        ELSE o.Regard
      byType == IF ~o.NoDefaults /\ hubType = "HomeHub"
                  THEN HomeRegard(withDefaults)
                  ELSE withDefaults
  IN IF o.RequireTrustedDestinationHubs /\ hubType = "DestinationHub"
       THEN byType \cup {"Trusted"}
       ELSE byType

\* Options.Matcher, lines 386-407: the states to disregard.
CompiledDisregard(o, hubType) ==
  LET withDefaults == IF ~o.NoDefaults
                        THEN Add(o.Disregard, StateSummaryDisregard)
                        ELSE o.Disregard
  IN IF o.NoDefaults THEN withDefaults
     ELSE CASE hubType = "HomeHub" ->
                 Add(withDefaults, {"UsageAsHomeDiscouraged"})
            [] hubType = "TransitHub" -> withDefaults
            [] hubType = "DestinationHub" ->
                 Add(Add(withDefaults, {"UsageAsDestinationDiscouraged"}),
                     {"ConnectivityIssues"})

\* The advisories Options.Matcher appends for a hub type (lines 417-424).
Advisories(hubType, hubIntel) ==
  CASE hubType = "HomeHub" ->
         <<hubIntel.HubAdvisory, hubIntel.HomeHubAdvisory>>
    [] hubType = "TransitHub" -> <<hubIntel.HubAdvisory>>
    [] hubType = "DestinationHub" ->
         <<hubIntel.HubAdvisory, hubIntel.DestinationHubAdvisory>>

\* Options.Matcher, lines 414-425: the slice of policies, and the array
\* behind o.HubPolicies after the append.
CompiledPolicies(o, hubType, hubIntel, arr) ==
  IF hubIntel # NoIntel
    THEN AppendSlice(o.HubPolicies, arr, Advisories(hubType, hubIntel))
    ELSE [slice |-> o.HubPolicies, arr |-> arr]

\* Options.Matcher, lines 383-431: what the returned closure captures. from
\* names the Options o points to; hubIntel is kept as history.
Matcher(from, o, hubType, hubIntel, arr) ==
  [from        |-> from,
   hubType     |-> hubType,
   hubIntel    |-> hubIntel,
   regard      |-> CompiledRegard(o, hubType),
   disregard   |-> CompiledDisregard(o, hubType),
   hubPolicies |-> CompiledPolicies(o, hubType, hubIntel, arr).slice,
   checkHubEntryPolicyWith |-> o.CheckHubEntryPolicyWith,
   checkHubExitPolicyWith  |-> o.CheckHubExitPolicyWith]

\* The closure's check of the pin's states (line 433).
StateCheck(m, pin) ==
  ~(~Has(pin.State, m.regard) \/ HasAnyOf(pin.State, m.disregard))

\* The closure's check of the verified owner (lines 438-457).
OwnerCheck(owners, pin) ==
  IF Len(owners) > 0
    THEN /\ pin.VerifiedOwner # ""
         /\ \E i \in 1..Len(owners) : pin.VerifiedOwner = owners[i]
    ELSE TRUE

\* The policy loop after a Permitted result: break policyCheck (line 483).
AfterPermitted(rest) == TRUE

\* The closure's loop over hubPolicies, from index i on (lines 460-485).
RECURSIVE policyCheck(_, _, _)
policyCheck(policies, i, pin) ==
  IF i > Len(policies) THEN TRUE
  ELSE IF ~IsSet(policies[i]) THEN policyCheck(policies, i + 1, pin)
  ELSE LET res == Match(policies[i], pin.Entity)
       IN CASE res = "NoMatch" -> policyCheck(policies, i + 1, pin)
            [] res = "MatchError" -> policyCheck(policies, i + 1, pin)
            [] res = "Denied" -> FALSE
            [] res = "Permitted" ->
                 AfterPermitted(policyCheck(policies, i + 1, pin))

\* endpointListMatch (lines 503-512).
endpointListMatch(list, entity) ==
  IF ~IsSet(list) \/ entity = NoEntity THEN "NoMatch"
  ELSE Match(list, entity)

\* The closure's entry check (lines 488-492).
EntryCheck(m, pin) ==
  ~(/\ m.checkHubEntryPolicyWith # NoEntity
    /\ endpointListMatch(pin.EntryPolicy, m.checkHubEntryPolicyWith)
         = "Denied")

\* The closure's exit check (lines 493-497): it asks EntryPolicy().
ExitCheck(m, pin) ==
  ~(/\ m.checkHubExitPolicyWith # NoEntity
    /\ endpointListMatch(pin.EntryPolicy, m.checkHubExitPolicyWith)
         = "Denied")

\* The check at which the closure returns false for the pin, "none" when
\* it returns true (lines 431-500). owners: o.RequireVerifiedOwners, read
\* through the captured pointer; arr: the array behind o.HubPolicies.
RejectedBy(m, owners, arr, pin) ==
  IF ~StateCheck(m, pin) THEN "state"
  ELSE IF ~OwnerCheck(owners, pin) THEN "owner"
  ELSE IF ~policyCheck(Elems(m.hubPolicies, arr), 1, pin) THEN "policy"
  ELSE IF ~EntryCheck(m, pin) THEN "entry"
  ELSE IF ~ExitCheck(m, pin) THEN "exit"
  ELSE "none"

\* A call of the PinMatcher m: the pin, where it was rejected, the result,
\* and the policies the loop went over.
Call(m, owners, arr, pin) ==
  [pin      |-> pin,
   by       |-> RejectedBy(m, owners, arr, pin),
   result   |-> RejectedBy(m, owners, arr, pin) = "none",
   policies |-> Elems(m.hubPolicies, arr)]

MatchAtStart ==
  /\ options = NoOptions
  /\ backing = <<>>
  /\ copied = NoOptions
  /\ matcher = NoMatcher
  /\ copyMatcher = NoMatcher
  /\ query = NoQuery
  /\ copyQuery = NoQuery

\* An Options value is made; hubPolicies is its HubPolicies, in an array
\* with room for spare more.
NewOptions(o, hubPolicies, spare) ==
  /\ options = NoOptions
  /\ options' = [o EXCEPT !.HubPolicies = SharedSlice(Len(hubPolicies))]
  /\ backing' = hubPolicies \o [i \in 1..spare |-> UnsetPolicy]
  /\ UNCHANGED <<restOfMatch, copied, matcher, copyMatcher, query, copyQuery>>

\* options.Copy()
CopyOptions ==
  /\ options # NoOptions
  /\ copied = NoOptions
  /\ copied' = Copy(options)
  /\ UNCHANGED <<restOfMatch, options, backing, matcher, copyMatcher, query,
                 copyQuery>>

\* options.Matcher(hubType, hubIntel)
CompileMatcher(hubType, hubIntel) ==
  /\ options # NoOptions
  /\ matcher = NoMatcher
  /\ matcher' = Matcher("options", options, hubType, hubIntel, backing)
  /\ backing' = CompiledPolicies(options, hubType, hubIntel, backing).arr
  /\ UNCHANGED <<restOfMatch, options, copied, copyMatcher, query, copyQuery>>

\* The copy's Matcher(hubType, hubIntel)
CompileCopyMatcher(hubType, hubIntel) ==
  /\ copied # NoOptions
  /\ copyMatcher = NoMatcher
  /\ copyMatcher' = Matcher("copied", copied, hubType, hubIntel, backing)
  /\ backing' = CompiledPolicies(copied, hubType, hubIntel, backing).arr
  /\ UNCHANGED <<restOfMatch, options, copied, matcher, query, copyQuery>>

\* options.Matcher(hubType, hubIntel) once more, for another hub type and
\* with the same hub intel: of the matcher it returns only the append to
\* the shared array is kept.
CompileAnother(hubType) ==
  /\ matcher # NoMatcher
  /\ hubType # matcher.hubType
  /\ backing' =
       CompiledPolicies(options, hubType, matcher.hubIntel, backing).arr
  /\ backing' # backing
  /\ UNCHANGED <<restOfMatch, options, copied, matcher, copyMatcher, query,
                 copyQuery>>

\* matcher(pin), the call that is looked at
MatchPin(pin) ==
  /\ matcher # NoMatcher
  /\ query = NoQuery
  /\ query' = Call(matcher, options.RequireVerifiedOwners, backing, pin)
  /\ UNCHANGED <<restOfMatch, options, backing, copied, matcher, copyMatcher,
                 copyQuery>>

\* copyMatcher(pin), the call that is looked at
CopyMatchPin(pin) ==
  /\ copyMatcher # NoMatcher
  /\ copyQuery = NoQuery
  /\ copyQuery' = Call(copyMatcher, copied.RequireVerifiedOwners, backing, pin)
  /\ UNCHANGED <<restOfMatch, options, backing, copied, matcher, copyMatcher,
                 query>>

\* Inputs: an Options value but for its HubPolicies, and a Pin.
Opts(regard, disregard, entry, exit, owners, noDefaults, requireTrusted) ==
  [Regard                        |-> regard,
   Disregard                     |-> disregard,
   HubPolicies                   |-> SharedSlice(0),
   CheckHubEntryPolicyWith       |-> entry,
   CheckHubExitPolicyWith        |-> exit,
   RequireVerifiedOwners         |-> owners,
   NoDefaults                    |-> noDefaults,
   RequireTrustedDestinationHubs |-> requireTrusted,
   RoutingProfile                |-> "default"]

Pin(state, owner, entity, entryPolicy, exitPolicy) ==
  [State |-> state, VerifiedOwner |-> owner, Entity |-> entity,
   EntryPolicy |-> entryPolicy, ExitPolicy |-> exitPolicy]

\* ---- Matching by states: every pin state, against the compiled states.
StateOptions ==
  {Opts(r, d, NoEntity, NoEntity, owners, nd, rt) :
     r \in SUBSET {"Reachable", "Trusted"},
     d \in {{}, {"ConnectivityIssues"}, {"Trusted"}},
     owners \in {<<>>, <<"A">>},
     nd \in BOOLEAN, rt \in BOOLEAN}

StatePolicies == {<<>>, <<Always("Denied")>>}

StatePins ==
  {Pin(st, "A", "e1", UnsetPolicy, UnsetPolicy) : st \in SUBSET StateBits}

NextMatchState ==
  \/ \E o \in StateOptions, ps \in StatePolicies : NewOptions(o, ps, 0)
  \/ \E t \in HubTypes : CompileMatcher(t, NoIntel)
  \/ \E pin \in StatePins : MatchPin(pin)

\* ---- Matching by policies: a pin that passes the state and owner checks.
MaxPolicies == 2   \* length of Options.HubPolicies
MaxSpare    == 2   \* cap(HubPolicies) - len(HubPolicies)

PlainOptions == Opts({}, {}, NoEntity, NoEntity, <<>>, TRUE, FALSE)

PolicyChoices == {UnsetPolicy, Always("NoMatch"), Always("MatchError"),
                  Always("Denied"), Always("Permitted")}

PolicyLists == UNION {[1..n -> PolicyChoices] : n \in 0..MaxPolicies}

AdvisoryChoices == {UnsetPolicy, Always("Denied"), Always("Permitted")}

Intels == {NoIntel} \cup {Intel(a, b, c) : a \in AdvisoryChoices,
                                            b \in AdvisoryChoices,
                                            c \in AdvisoryChoices}

PlainPin == Pin({}, "", "e1", UnsetPolicy, UnsetPolicy)

NextMatchPolicy ==
  \/ \E ps \in PolicyLists, spare \in 0..MaxSpare :
       NewOptions(PlainOptions, ps, spare)
  \/ \E t \in HubTypes, i \in Intels : CompileMatcher(t, i)
  \/ \E t \in HubTypes : CompileAnother(t)
  \/ MatchPin(PlainPin)

\* ---- Matching by the hub's entry and exit policies.
ProbeOptions ==
  {Opts({}, {}, entry, exit, <<>>, TRUE, FALSE) :
     entry \in Entities \cup {NoEntity}, exit \in Entities \cup {NoEntity}}

ProbePolicies == {UnsetPolicy, Always("Denied"), Always("Permitted"),
                  Always("MatchError"), Only("e1", "Denied"),
                  Only("e2", "Denied")}

ProbePins ==
  {Pin({}, "", "e1", entryPolicy, exitPolicy) :
     entryPolicy \in ProbePolicies, exitPolicy \in ProbePolicies}

NextMatchProbe ==
  \/ \E o \in ProbeOptions : NewOptions(o, <<>>, 0)
  \/ \E t \in HubTypes : CompileMatcher(t, NoIntel)
  \/ \E pin \in ProbePins : MatchPin(pin)

\* ---- Matching with the Options and with their copy.
CopyOptionsInputs ==
  {Opts(r, {}, entry, NoEntity, owners, nd, FALSE) :
     r \in {{}, {"Trusted"}},
     entry \in {NoEntity, "e1"},
     owners \in {<<>>, <<"A">>, <<"A", "B">>},
     nd \in BOOLEAN}

CopyPolicies == {<<>>, <<Only("e2", "Denied")>>}

CopyPins ==
  {Pin(st, owner, entity, Only("e1", "Denied"), UnsetPolicy) :
     st \in {{}, {"Reachable", "Active", "Trusted"}},
     owner \in {"", "A", "C"},
     entity \in Entities}

NextMatchCopy ==
  \/ \E o \in CopyOptionsInputs, ps \in CopyPolicies : NewOptions(o, ps, 0)
  \/ CopyOptions
  \/ \E t \in HubTypes : CompileMatcher(t, NoIntel)
  \/ \E t \in HubTypes : CompileCopyMatcher(t, NoIntel)
  \/ \E pin \in CopyPins : MatchPin(pin)
  \/ \E pin \in CopyPins : CopyMatchPin(pin)

(***************************************************************************)
(* Terminal: Msg, Pack, Consume and FinishUnit.                            *)
(***************************************************************************)
MaxMsgs == 3   \* messages made

Slots == 1..MaxMsgs

\* Msg.FlowID values and payloads the messages are given.
MsgFlowIDs == {258}
Payloads == {<<>>, <<7>>}

\* MsgType, by its byte on the wire.
MsgTypeData == 2
MsgTypeStop == 3
\* The types a holder sets on a message it made.
MsgTypes == {MsgTypeData, MsgTypeStop}

\* A Data of nil: NewEmptyMsg leaves Data unset.  No byte is negative.
NoData == <<-1>>

NoPoolMsg == [made |-> FALSE, FlowID |-> 0, Type |-> 0, Data |-> NoData,
              high |-> FALSE, finished |-> 0, payload |-> NoData]

NoConsume == <<>>

\* The 4 bytes of a uint32, big-endian.
BigEndian32(n) ==
  <<(n \div 16777216) % 256, (n \div 65536) % 256, (n \div 256) % 256,
    n % 256>>

\* The varint of a length below 128: one byte.
Varint(n) == <<n>>

\* MakeMsg: the data with its header before it: the length of what follows
\* the length, the flow ID and the type.
MakeMsg(data, flowID, type) ==
  Varint(4 + 1 + Len(data)) \o BigEndian32(flowID) \o <<type>> \o data

\* Msg.Pack (lines 59-61).
Pack(m) == [m EXCEPT !.Data = MakeMsg(m.Data, m.FlowID, m.Type)]

\* unit.Unit.FinishUnit, through Msg.FinishUnit (lines 85-91).
MsgFinishUnit(m) == [m EXCEPT !.finished = m.finished + 1]

\* Consume's first step: other.Pack() (line 69).
PackedForConsume(other) == Pack(other)

\* A Consume that takes over the priority mark only.
InheritedPriorityOnly(selfHigh, otherHigh) == otherHigh

\* Consume's priority inheritance (lines 75-77).
InheritedPriority(selfHigh, otherHigh) ==
  IF otherHigh THEN TRUE ELSE selfHigh

\* Msg.Consume (lines 67-81): the two messages after the call.
Consume(self, other) ==
  LET packed == PackedForConsume(other)
  IN [self  |-> [self EXCEPT !.Data = self.Data \o packed.Data,
                             !.high = InheritedPriority(self.high, other.high)],
      other |-> MsgFinishUnit(packed)]

MsgAtStart ==
  /\ pool = [i \in Slots |-> NoPoolMsg]
  /\ batched = [i \in Slots |-> <<>>]
  /\ lastConsume = NoConsume

\* A Consume has panicked: the goroutine is gone.
Panicked == IF lastConsume = NoConsume THEN FALSE ELSE ~lastConsume.returned

\* The next message is made where none is yet.
FreeSlot(i) == ~pool[i].made /\ \A j \in 1..(i - 1) : pool[j].made

\* NewMsg(data) (lines 29-40)
MsgNew(i, data) ==
  /\ FreeSlot(i)
  /\ pool' = [pool EXCEPT ![i] =
       [NoPoolMsg EXCEPT !.made = TRUE, !.Type = MsgTypeData, !.Data = data,
                         !.payload = data]]
  /\ UNCHANGED <<restOfMsg, batched, lastConsume>>

\* NewEmptyMsg() (lines 46-56)
MsgNewEmpty(i) ==
  /\ FreeSlot(i)
  /\ pool' = [pool EXCEPT ![i] =
       [NoPoolMsg EXCEPT !.made = TRUE, !.Type = MsgTypeData]]
  /\ UNCHANGED <<restOfMsg, batched, lastConsume>>

\* The holder of a message in flight sets its FlowID and Type.
MsgAddressed(i, flowID, type) ==
  /\ pool[i].made
  /\ pool[i].finished = 0
  /\ pool[i].FlowID = 0
  /\ pool' = [pool EXCEPT ![i].FlowID = flowID, ![i].Type = type]
  /\ UNCHANGED <<restOfMsg, batched, lastConsume>>

\* msg.MakeUnitHighPriority() on a message in flight
MsgMadeHighPriority(i) ==
  /\ pool[i].made
  /\ pool[i].finished = 0
  /\ ~pool[i].high
  /\ pool' = [pool EXCEPT ![i].high = TRUE]
  /\ UNCHANGED <<restOfMsg, batched, lastConsume>>

\* pool[i].Consume(pool[j]) of two messages in flight that have Data.
MsgConsume(i, j) ==
  /\ ~Panicked
  /\ i # j
  /\ pool[i].made /\ pool[j].made
  /\ pool[i].finished = 0 /\ pool[j].finished = 0
  /\ pool[i].Data # NoData /\ pool[j].Data # NoData
  /\ pool' = [pool EXCEPT ![i] = Consume(pool[i], pool[j]).self,
                          ![j] = Consume(pool[i], pool[j]).other]
  /\ batched' = [batched EXCEPT ![i] =
       Append(batched[i], [slot |-> j, msg |-> pool[j]])]
  /\ lastConsume' = [self |-> i, other |-> j, selfBefore |-> pool[i],
                     otherBefore |-> pool[j], returned |-> TRUE]
  /\ UNCHANGED restOfMsg

\* pool[i].Consume(pool[j]) where a Data is nil: the call panics on the nil
\* container, before line 80.
MsgConsumePanics(i, j) ==
  /\ i # j
  /\ pool[i].made /\ pool[j].made
  /\ pool[i].finished = 0 /\ pool[j].finished = 0
  /\ pool[i].Data = NoData \/ pool[j].Data = NoData
  /\ ~Panicked
  /\ pool' = IF pool[j].Data = NoData THEN pool
             ELSE [pool EXCEPT ![j] = PackedForConsume(pool[j])]
  /\ lastConsume' = [self |-> i, other |-> j, selfBefore |-> pool[i],
                     otherBefore |-> pool[j], returned |-> FALSE]
  /\ UNCHANGED <<restOfMsg, batched>>

NextMsg ==
  \/ \E i \in Slots, data \in Payloads : MsgNew(i, data)
  \/ \E i \in Slots : MsgNewEmpty(i)
  \/ \E i \in Slots, f \in MsgFlowIDs, t \in MsgTypes : MsgAddressed(i, f, t)
  \/ \E i \in Slots : MsgMadeHighPriority(i)
  \/ \E i \in Slots, j \in Slots : MsgConsume(i, j)
  \/ \E i \in Slots, j \in Slots : MsgConsumePanics(i, j)

(***************************************************************************)
(* Claims about the crane.                                                 *)
(***************************************************************************)
Handed(u) == \E e \in sent : e.unit = u

\* C1: every message created by EstablishNewTerminal or establishTerminal is
\* either handed to a crane send channel or has FinishUnit called on it
\* exactly once; no message is dropped while its unit is unfinished.
C1_NoMessageDroppedUnfinished ==
  \A u \in UnitIDs :
    msgs[u].made =>
      /\ msgs[u].finished <= 1
      /\ msgs[u].dropped => msgs[u].finished = 1

\* The Init messages caller c has enqueued, per channel.
InitsSentBy(c, ch) ==
  {e \in sent : e.ch = ch /\ msgs[e.unit].by = "EstablishNewTerminal"
                /\ msgs[e.unit].owner = c}

\* C2: every return of EstablishNewTerminal is (a) nil, with exactly one Init
\* message (FlowID = localTerm.ID(), Data = initData) enqueued on
\* controllerMsgs, none on terminalMsgs, and the terminal registered before
\* the enqueue; or (b) ErrStopping, with the crane context cancelled, no Init
\* enqueued, AbandonTerminal called for the terminal's ID and the terminal no
\* longer in the flow table.
C2_EstablishNewTerminalOutcomes ==
  \A c \in Callers :
    cpc[c] = "returned" =>
      \/ /\ cResult[c] = "nil"
         /\ Cardinality(InitsSentBy(c, "controllerMsgs")) = 1
         /\ InitsSentBy(c, "terminalMsgs") = {}
         /\ \A e \in InitsSentBy(c, "controllerMsgs") :
              /\ e.regd
              /\ msgs[e.unit].FlowID = cTerm[c].id
              /\ msgs[e.unit].Type = "Init"
              /\ msgs[e.unit].Data = InitDataOf(c)
         /\ cTerm[c].tid \in everRegistered
         /\ <<c, cTerm[c].id>> \notin abandonCalls
      \/ /\ cResult[c] = "ErrStopping"
         /\ craneCtxDone
         /\ InitsSentBy(c, "controllerMsgs") = {}
         /\ InitsSentBy(c, "terminalMsgs") = {}
         /\ cTerm[c].tid \in everRegistered
         /\ <<c, cTerm[c].id>> \in abandonCalls
         /\ terminals[cTerm[c].id] # cTerm[c]

\* A call returned ErrStopping and left its flow ID unregistered.
C2_Witness ==
  \E c \in Callers :
    /\ cpc[c] = "returned"
    /\ cResult[c] = "ErrStopping"
    /\ terminals[cTerm[c].id] = NoTerm

\* C3: in any interleaving of EstablishNewTerminal and establishTerminal
\* calls, a flow ID registered to a terminal that has not been abandoned is
\* never registered to (overwritten by) a second terminal.
C3_NoLiveTerminalOverwritten == overwritten = {}

(***************************************************************************)
(* Claims about establishHomeHub and connectToHomeHub.                     *)
(***************************************************************************)
\* C4: within one invocation of establishHomeHub, bootstrapWithUpdates is
\* invoked at most once and FindNearestHubs at most twice.
C4_BootstrapAtMostOnce == bootstrapCalls <= 1 /\ findCalls <= 2

\* C5: the candidates are tried strictly in the returned order, one
\* connectToHomeHub call at a time; a later candidate is attempted only after
\* every earlier one failed with an error other than ErrStopping; a success
\* ends the walk with nil, an ErrStopping is returned as it is, and when every
\* candidate failed otherwise the result is a non-nil error wrapping the last
\* failure.
C5_CandidateWalk ==
  /\ Len(connectLog) <= Len(candidates)
  /\ connectLog = SubSeq(candidates, 1, Len(connectLog))
  /\ Len(connectResults) =
       Len(connectLog) - (IF hpc \in {"connect", "panicked"} THEN 1 ELSE 0)
  /\ kpc \notin {"idle", "returned", "panicked"} => hpc = "connect"
  /\ \A i \in 1..Len(connectResults) :
       i < Len(connectLog) =>
         connectResults[i] # Nil /\ ~Is(connectResults[i], "ErrStopping")
  /\ (hpc = "done" /\ connectLog # <<>>) =>
       LET last == connectResults[Len(connectResults)] IN
         /\ Len(connectResults) = Len(connectLog)
         /\ last = Nil => hResult = Nil
         /\ Is(last, "ErrStopping") => hResult = last
         /\ (last # Nil /\ ~Is(last, "ErrStopping")) =>
              /\ Len(connectLog) = Len(candidates)
              /\ hResult # Nil
              /\ Tail(hResult) = last

\* Two candidates were tried, both failed, and the result wraps the second
\* failure, which differs from the first.
C5_Witness ==
  /\ hpc = "done"
  /\ Len(connectLog) = 2
  /\ hResult # Nil
  /\ Tail(hResult) = connectResults[2]
  /\ connectResults[1] # connectResults[2]

\* C6: on every exit of connectToHomeHub the firewall exceptions are cleared;
\* once EstablishCrane has succeeded the crane is stopped (once) on every
\* failing exit and is not stopped when connectToHomeHub returns nil.
C6_ConnectReleases ==
  /\ kpc \notin {"idle", "returned", "panicked"} => exceptions = dst
  /\ kpc \in {"returned", "panicked"} =>
       /\ exceptions = "nil"
       /\ kSite = "EstablishCrane" <=> crane = "none"
       /\ crane # "none" =>
            (crane = "stopped" <=> (kpc = "panicked" \/ kResult # Nil))
       /\ craneStops = (IF crane = "stopped" THEN 1 ELSE 0)
       /\ kSite \in {"NewLocalCraneTerminal", "EstablishNewTerminal",
                     "AuthorizeToTerminal", "Ended", "timeout", "ctx.Done",
                     "SetHome"} => (kResult # Nil /\ crane = "stopped")
       /\ kSite = "end" => (kResult = Nil /\ crane = "up")

\* connectToHomeHub returned from the auth timeout with the crane stopped and
\* the exceptions cleared.
C6_Witness ==
  /\ kpc = "returned"
  /\ kSite = "timeout"
  /\ crane = "stopped"
  /\ exceptions = "nil"

\* The auth select has resolved.
AuthResolved == authObs.ended # "none" \/ authObs.timer \/ authObs.ctxDone

\* C7: SetHome is called only after authOp.Ended delivered ErrExplicitAck and
\* AssignCrane only after SetHome returned true; any other Ended value fails
\* the call; with nothing delivered and the context not cancelled the call
\* returns ErrTimeout with the crane stopped; a cancelled context alone makes
\* it return ErrStopping; no failing auth outcome calls SetHome or AssignCrane.
C7_HomeSetOnlyAfterAuth ==
  /\ setHomeLog # <<>> =>
       (AuthResolved /\ authObs.ended = "ErrExplicitAck" /\ Len(setHomeLog) = 1)
  /\ assignLog # <<>> => (setHomeLog = <<TRUE>> /\ assignLog = <<dst>>)
  /\ (AuthResolved /\ authObs.ended \notin {"none", "ErrExplicitAck"}) =>
       (kpc = "returned" /\ kResult # Nil)
  /\ (AuthResolved /\ authObs.ended = "none" /\ ~authObs.ctxDone) =>
       (kSite = "timeout" /\ Is(kResult, "ErrTimeout") /\ crane = "stopped")
  /\ (AuthResolved /\ authObs.ended = "none" /\ ~authObs.timer) =>
       (kSite = "ctx.Done" /\ Is(kResult, "ErrStopping"))
  /\ kSite = "timeout" => (authObs.timer /\ kResult = TimeoutErr(dst))
  /\ kSite = "ctx.Done" => (authObs.ctxDone /\ Is(kResult, "ErrStopping"))
  /\ kSite = "Ended" => authObs.ended \notin {"none", "ErrExplicitAck"}
  /\ kSite \in {"Ended", "timeout", "ctx.Done"} =>
       (kResult # Nil /\ setHomeLog = <<>> /\ assignLog = <<>>)

\* The auth wait timed out with nothing delivered and the context live.
C7_Witness ==
  /\ kpc = "returned"
  /\ kSite = "timeout"
  /\ authObs.ended = "none"
  /\ ~authObs.ctxDone
  /\ Is(kResult, "ErrTimeout")

\* C8: establishHomeHub returns ErrAllHomeHubsExcluded exactly when the search
\* succeeded with zero candidates under a non-empty home policy, and then no
\* connectToHomeHub call is made; with zero candidates and an empty policy it
\* returns another, non-nil error.
C8_AllExcluded ==
  hpc = "done" =>
    /\ hResult = ErrAllHomeHubsExcluded <=>
         (found /\ Len(candidates) = 0 /\ Len(homePolicy) > 0)
    /\ Is(hResult, "ErrAllHomeHubsExcluded") => connectLog = <<>>
    /\ (found /\ Len(candidates) = 0 /\ Len(homePolicy) = 0) =>
         /\ hResult # Nil
         /\ ~Is(hResult, "ErrAllHomeHubsExcluded")
         /\ connectLog = <<>>

\* The search found nothing under a set policy and the call returned
\* ErrAllHomeHubsExcluded.
C8_Witness ==
  /\ hpc = "done"
  /\ found
  /\ candidates = <<>>
  /\ homePolicy # <<>>
  /\ hResult = ErrAllHomeHubsExcluded

(***************************************************************************)
(* Claims about optimizeNetwork.                                           *)
(***************************************************************************)
\* The EstablishPublicLane calls of this pass that succeeded before call i.
EstablishedBefore(i) ==
  Cardinality({j \in 1..(i - 1) : attemptLog[j].ok})

\* The EstablishPublicLane calls of this pass that failed.
FailedAttempts ==
  Cardinality({j \in 1..Len(attemptLog) : ~attemptLog[j].ok})

\* C9 as stated: a pass never attempts more lanes than result.MaxConnect.
C9_AttemptsWithinMaxConnect ==
  attemptedConnections <= result.MaxConnect

\* C9 amended: a pass attempts a lane only while fewer than
\* result.MaxConnect lanes are established, so the lanes attempted never
\* exceed result.MaxConnect plus the attempts that failed; when no attempt
\* fails, no more than result.MaxConnect lanes are attempted.
C9_AttemptsWithinMaxConnectPlusFailed ==
  /\ attemptedConnections = Len(attemptLog)
  /\ attemptedConnections <= result.MaxConnect + FailedAttempts
  /\ FailedAttempts = 0 => attemptedConnections <= result.MaxConnect

\* A pass that attempted more lanes than result.MaxConnect has returned.
C9_Witness ==
  /\ opc = "done"
  /\ result.MaxConnect = 1
  /\ attemptedConnections = 2
  /\ FailedAttempts = 1
  /\ attemptLog[1].Hub = "H1" /\ attemptLog[2].Hub = "H2"

\* C10: a pass establishes at most result.MaxConnect lanes, and calls
\* EstablishPublicLane no more once that many are established.
C10_CreatedWithinMaxConnect ==
  /\ createdConnections <= result.MaxConnect
  /\ createdConnections = Len(attemptLog) - FailedAttempts
  /\ \A i \in 1..Len(attemptLog) : EstablishedBefore(i) < result.MaxConnect

\* A pass established result.MaxConnect lanes and then passed over a
\* suggested hub that has no crane.
C10_Witness ==
  /\ opc = "done"
  /\ result.MaxConnect >= 1
  /\ createdConnections = result.MaxConnect
  /\ \E i \in 1..Len(result.SuggestedConnections) :
       LET connectTo == result.SuggestedConnections[i]
       IN /\ ~connectTo.Duplicate
          /\ ~cranes[connectTo.Hub].assigned
          /\ \A j \in 1..Len(attemptLog) : attemptLog[j].Hub # connectTo.Hub
          /\ connectTo.Hub \notin refreshed

\* The step is the retirement phase of a pass.
RetirementStep == opc = "suggestions" /\ opc' = "done"

\* C11: a crane becomes marked stopping exactly in the retirement phase of
\* a pass whose result has StopOthers set, and exactly when it is assigned,
\* own, not stopped, not stopping and last suggested 6 hours ago or
\* earlier; so no crane is marked without StopOthers, and no crane built by
\* others or suggested within the last 6 hours is marked by any step.
C11_RetirementMarks ==
  [][\A h \in LaneHubs :
       (~cranes[h].stopping /\ cranes'[h].stopping)
         <=> /\ RetirementStep
             /\ result.StopOthers
             /\ cranes[h].assigned
             /\ cranes[h].mine
             /\ ~cranes[h].stopped
             /\ ~cranes[h].stopping
             /\ cranes[h].lastSuggestedAt + stopCraneAfterBeingUnsuggestedFor
                  <= now]_vars

\* A pass with StopOthers has marked an own crane last suggested 6 hours
\* before, and left alone a crane built by others that was never suggested.
C11_Witness ==
  /\ opc = "done"
  /\ result.StopOthers
  /\ \E h \in marked :
       /\ cranes[h].stopping
       /\ cranes[h].mine
       /\ cranes[h].lastSuggestedAt = now - stopCraneAfterBeingUnsuggestedFor
  /\ \E h \in LaneHubs \ marked :
       /\ cranes[h].assigned
       /\ ~cranes[h].mine
       /\ ~cranes[h].stopping
       /\ cranes[h].lastSuggestedAt = NeverSuggested

\* The step is one iteration of the loop over the suggestions.
SuggestionStep == opc = "suggestions" /\ idx' = idx + 1

\* C12: an iteration for a non-duplicate suggestion whose hub has an
\* assigned crane sets that crane's LastSuggestedAt to now, leaves it not
\* marked stopping and calls EstablishPublicLane for no hub; an iteration
\* for a Duplicate suggestion changes no crane and calls EstablishPublicLane
\* for no hub; and a crane whose stopping mark a pass removed is not marked
\* stopping when that pass has returned.
C12_SuggestedCraneKept ==
  /\ [][SuggestionStep =>
          LET connectTo == result.SuggestedConnections[idx]
              h == connectTo.Hub
          IN /\ (~connectTo.Duplicate /\ cranes[h].assigned) =>
                  /\ cranes'[h].assigned
                  /\ cranes'[h].lastSuggestedAt = now
                  /\ ~cranes'[h].stopping
                  /\ attemptLog' = attemptLog
                  /\ attemptedConnections' = attemptedConnections
             /\ connectTo.Duplicate =>
                  /\ cranes' = cranes
                  /\ attemptLog' = attemptLog
                  /\ attemptedConnections' = attemptedConnections]_vars
  /\ [](opc = "done" => \A h \in unmarked : ~cranes[h].stopping)

\* The second pass has returned; it was given a Duplicate suggestion and a
\* suggestion for an own crane that the first pass had marked stopping, and
\* that crane is assigned, refreshed and not marked.
C12_Witness ==
  /\ opc = "done"
  /\ passes = 2
  /\ result.StopOthers
  /\ \E i \in 1..Len(result.SuggestedConnections) :
       result.SuggestedConnections[i].Duplicate
  /\ \E h \in unmarked :
       /\ cranes[h].assigned
       /\ cranes[h].mine
       /\ cranes[h].lastSuggestedAt = now
       /\ ~cranes[h].stopping
       /\ attemptLog = <<>>

OptimizeOrBootstrapErrors ==
  {NewErr(code, "optimize", "") : code \in FindErrs}
    \cup {NewErr("ErrBootstrap", "bootstrap failed", "")}

\* C14: an iteration whose EstablishPublicLane call fails leaves the pass
\* in the loop at the next suggestion, with no error set; the pass leaves
\* the loop only after the last suggestion, through the retirement phase,
\* which marks every crane it is to retire when StopOthers is set, and
\* returns nil; and a pass that returns an error returns one of Optimize or
\* of bootstrapping, before the first suggestion.
C14_FailedLaneDoesNotAbort ==
  /\ [][/\ (SuggestionStep /\ Len(attemptLog') > Len(attemptLog)
              /\ ~attemptLog'[Len(attemptLog')].ok)
            => (opc' = "suggestions" /\ oResult' = Nil)
        /\ (opc = "suggestions" /\ opc' # "suggestions")
            => /\ idx > Len(result.SuggestedConnections)
               /\ opc' = "done"
               /\ oResult' = Nil
               /\ result.StopOthers =>
                    \A h \in LaneHubs :
                      (cranes[h].assigned /\ Retires(cranes[h], now))
                        => cranes'[h].stopping]_vars
  /\ []((opc = "done" /\ oResult # Nil)
          => /\ oResult \in OptimizeOrBootstrapErrors
             /\ optimizeCalls >= 1
             /\ idx = 0
             /\ attemptLog = <<>>)

\* A pass whose first EstablishPublicLane call failed went on to call it
\* for the next suggestion, retired a crane and returned nil.
C14_Witness ==
  /\ opc = "done"
  /\ oResult = Nil
  /\ Len(attemptLog) = 2
  /\ ~attemptLog[1].ok
  /\ result.StopOthers
  /\ marked # {}

C16_PolicyCheck ==
  (query # NoQuery /\ query.by \notin {"state", "owner"}) =>
    LET t == matcher.hubType
        caller == SubSeq(backing, 1, options.HubPolicies.len)
        expected == IF matcher.hubIntel # NoIntel
                      THEN caller \o Advisories(t, matcher.hubIntel)
                      ELSE caller
        decisive == {i \in 1..Len(expected) :
                       /\ IsSet(expected[i])
                       /\ Match(expected[i], query.pin.Entity)
                            \in {"Denied", "Permitted"}}
        first == CHOOSE i \in decisive : \A j \in decisive : i <= j
    IN (query.by = "policy")
         <=> /\ decisive # {}
             /\ Match(expected[first], query.pin.Entity) = "Denied"

\* C17: a pin past the state, owner and policy checks is rejected by the
\* entry check exactly when CheckHubEntryPolicyWith is set and the hub's
\* entry policy denies that entity, and a pin past the entry check too is
\* rejected by the exit check exactly when CheckHubExitPolicyWith is set
\* and the hub's exit policy denies that entity.
C17_EntryExitChecks ==
  query # NoQuery =>
    LET entry == options.CheckHubEntryPolicyWith
        exit == options.CheckHubExitPolicyWith
        pin == query.pin
        entryDenies == /\ entry # NoEntity
                       /\ IsSet(pin.EntryPolicy)
                       /\ Match(pin.EntryPolicy, entry) = "Denied"
        exitDenies == /\ exit # NoEntity
                      /\ IsSet(pin.ExitPolicy)
                      /\ Match(pin.ExitPolicy, exit) = "Denied"
    IN /\ query.by \notin {"state", "owner", "policy"}
            => ((query.by = "entry") <=> entryDenies)
       /\ query.by \notin {"state", "owner", "policy", "entry"}
            => ((query.by = "exit") <=> exitDenies)

\* C18: what Options.Copy returns is equal to the Options in every field,
\* and the PinMatcher compiled from the copy returns for every hub type and
\* pin what the PinMatcher compiled from the Options returns.
C18_CopyMatchesAlike ==
  /\ copied # NoOptions => copied = options
  /\ (/\ query # NoQuery
      /\ copyQuery # NoQuery
      /\ matcher.hubType = copyMatcher.hubType
      /\ query.pin = copyQuery.pin)
       => query.result = copyQuery.result

(***************************************************************************)
(* Claims about Msg.Consume.                                               *)
(***************************************************************************)
\* The step is a Consume call that returned.
ConsumeStep == batched' # batched

\* The frames of the messages consumed, one after the other.
RECURSIVE Frames(_)
Frames(bs) ==
  IF bs = <<>> THEN <<>>
  ELSE MakeMsg(Head(bs).msg.Data, Head(bs).msg.FlowID, Head(bs).msg.Type)
         \o Frames(Tail(bs))

\* How often a message was consumed, by any message.
RECURSIVE TimesIn(_, _)
TimesIn(j, bs) ==
  IF bs = <<>> THEN 0
  ELSE (IF Head(bs).slot = j THEN 1 ELSE 0) + TimesIn(j, Tail(bs))

RECURSIVE TimesConsumedBy(_, _)
TimesConsumedBy(j, n) ==
  IF n = 0 THEN 0 ELSE TimesIn(j, batched[n]) + TimesConsumedBy(j, n - 1)

TimesConsumed(j) == TimesConsumedBy(j, MaxMsgs)

\* C19: after self.Consume(other) self is high priority iff self or other
\* was; other's unit is finished exactly once and self's is not; self's
\* FlowID and Type are as before; self's Data is its Data before followed by
\* other's frame: the header of other's FlowID and Type, then other's
\* payload.  So a message that consumed k messages holds its own payload and
\* their k frames in the order of consumption, each consumed message's unit
\* is finished exactly once, and the unit of a message nobody consumed is
\* open, as long as every Consume call returned.
C19_ConsumeBatches ==
  /\ [][ConsumeStep =>
          LET i == lastConsume'.self
              j == lastConsume'.other
          IN /\ pool'[i].high = (pool[i].high \/ pool[j].high)
             /\ pool[j].finished = 0 /\ pool'[j].finished = 1
             /\ pool'[i].finished = 0
             /\ pool'[i].FlowID = pool[i].FlowID
             /\ pool'[i].Type = pool[i].Type
             /\ pool'[i].Data =
                  pool[i].Data
                    \o <<5 + Len(pool[j].Data)>>
                    \o BigEndian32(pool[j].FlowID)
                    \o <<pool[j].Type>>
                    \o pool[j].Data]_vars
  /\ [](Panicked \/ \A i \in Slots :
          /\ pool[i].finished = TimesConsumed(i)
          /\ pool[i].finished <= 1
          /\ batched[i] # <<>> =>
               /\ \A n \in 1..Len(batched[i]) :
                    pool[batched[i][n].slot].finished = 1
               /\ LET whole == pool[i].payload \o Frames(batched[i])
                  IN pool[i].Data =
                       IF pool[i].finished = 0 THEN whole
                       ELSE MakeMsg(whole, pool[i].FlowID, pool[i].Type))

\* A message consumed two others of another FlowID, the second of them high
\* priority, and became high priority by it.
C19_Witness ==
  /\ lastConsume # NoConsume
  /\ \E i \in Slots :
       /\ Len(batched[i]) = 2
       /\ lastConsume.returned /\ lastConsume.self = i
       /\ ~lastConsume.selfBefore.high
       /\ ~batched[i][1].msg.high
       /\ batched[i][2].msg.high
       /\ batched[i][2].msg.Data # <<>>
       /\ batched[i][1].msg.FlowID # pool[i].FlowID
       /\ pool[i].high
       /\ pool[i].finished = 0

(***************************************************************************)
(* Claims about establishTerminal.                                         *)
(***************************************************************************)
\* The step is establishTerminal's return.
establishTerminalReturns == rpc = "establish" /\ rpc' = "idle"

\* The Stop message establishTerminal builds for flow ID id and error e.
IsStopFor(m, id, e) ==
  m.made /\ m.Type = "Stop" /\ m.FlowID = id /\ m.Data = <<"packed", e>>

\* Message u was enqueued on terminalMsgs.
Enqueued(u) == \E ev \in sent : ev.ch = "terminalMsgs" /\ ev.unit = u

\* C20: when NewRemoteCraneTerminal fails, establishTerminal registers no
\* terminal and sends a Stop message with the flow ID of the Init frame and
\* the packed error on terminalMsgs, or hands it to a worker when
\* terminalMsgs is full; the call returns whatever terminalMsgs holds; and
\* the worker's message is enqueued in the end unless the worker's context
\* is cancelled.  When NewRemoteCraneTerminal succeeds the terminal is
\* registered and no message is built, enqueued or handed to a worker.
C20_FailedEstablishSendsStop ==
  /\ [][establishTerminalReturns =>
          LET u == ReaderUnit(initsHandled)
          IN IF rErr' = "nil"
               THEN /\ terminals'[rID].id = rID
                    /\ terminals'[rID].remote
                    /\ msgs' = msgs
                    /\ sent' = sent
                    /\ terminalMsgs' = terminalMsgs
                    /\ workers' = workers
               ELSE /\ terminals' = terminals
                    /\ everRegistered' = everRegistered
                    /\ ~msgs[u].made
                    /\ IsStopFor(msgs'[u], rID, rErr')
                    /\ IF Len(terminalMsgs) < ChanCap
                         THEN /\ terminalMsgs' = Append(terminalMsgs, u)
                              /\ Enqueued(u)'
                              /\ workers' = workers
                         ELSE /\ terminalMsgs' = terminalMsgs
                              /\ workers' = workers \cup {u}]_vars
  /\ [](rpc = "establish" =>
          /\ ENABLED establishTerminalOK
          /\ \A e \in RemoteErrs : ENABLED establishTerminalFailed(e))
  /\ \A u \in UnitIDs :
       (u \in workers) ~> (Enqueued(u) \/ workerCtxDone)

\* A failed establishTerminal found terminalMsgs full and returned: no
\* terminal is registered for the flow ID, and a worker holds the Stop message.
C20_Witness ==
  /\ rErr \in RemoteErrs
  /\ rpc = "idle"
  /\ terminals[rID] = NoTerm
  /\ Len(terminalMsgs) = ChanCap
  /\ ~workerCtxDone
  /\ \E u \in workers :
       /\ msgs[u].by = "establishTerminal"
       /\ IsStopFor(msgs[u], rID, rErr)
       /\ ~Enqueued(u)

(***************************************************************************)
(* Claims about the end of optimizeNetwork.                                *)
(***************************************************************************)
\* C21: an invocation of optimizeNetwork calls bootstrapWithUpdates at most
\* once, so it does not go round between Optimize and bootstrap while the
\* map stays empty; and an invocation with publicIdentity nil, the only one
\* that returns without an Optimize call, returns nil and has attempted no
\* lane and marked no crane.
C21_BootstrapsAtMostOnce ==
  /\ oBootstrapCalls <= 1
  /\ (passes > 0 /\ opc = "done" /\ optimizeCalls = 0) =>
       /\ oResult = Nil
       /\ oBootstrapCalls = 0
       /\ attemptedConnections = 0
       /\ attemptLog = <<>>
       /\ marked = {}
       /\ refreshed = {}

\* C22: the retirement phase of a pass marks no crane that the pass
\* suggested, neither an assigned crane named by a non-duplicate
\* suggestion nor a lane the pass established, whatever StopOthers is and
\* however old the crane's LastSuggestedAt was when the pass began.
C22_SuggestedNotRetired ==
  /\ [][RetirementStep =>
          \A h \in refreshed :
            /\ ~cranes[h].stopping
            /\ ~cranes'[h].stopping
            /\ h \notin marked']_vars
  /\ [](marked \cap refreshed = {})

\* A pass with StopOthers has returned: it was given a suggestion for an own
\* crane that an earlier pass had retired as unsuggested for 6 hours, and
\* kept it, while it retired another own crane that it was not given.
C22_Witness ==
  /\ opc = "done"
  /\ passes = 2
  /\ result.StopOthers
  /\ \E h \in unmarked \cap refreshed :
       /\ cranes[h].assigned
       /\ cranes[h].mine
       /\ ~cranes[h].stopped
       /\ ~cranes[h].stopping
       /\ h \notin marked
  /\ \E h \in marked \ refreshed :
       /\ cranes[h].mine
       /\ cranes[h].stopping

(***************************************************************************)
(* Specifications.                                                         *)
(***************************************************************************)
Init ==
  /\ CraneAtStart /\ HomeAtStart /\ ConnectAtStart /\ OptAtStart
  /\ MatchAtStart /\ MsgAtStart

\* Crane.EstablishNewTerminal and Crane.establishTerminal on one crane.
SpecCrane == Init /\ [][NextCrane]_vars

\* The crane with its scheduling: the writer loop takes what terminalMsgs
\* holds, and a sender blocked on terminalMsgs gets its turn when there is
\* room again and again.
SpecCraneLive ==
  /\ SpecCrane
  /\ WF_vars(WriterTakesTerminal)
  /\ \A u \in UnitIDs : SF_vars(WorkerSent(u))

\* One invocation of establishHomeHub.
SpecHome == Init /\ [][NextHome]_vars

\* Passes of optimizeNetwork over the assigned cranes.
SpecOpt == Init /\ [][NextOpt]_vars

\* A PinMatcher applied to pins of every state.
SpecMatchState == Init /\ [][NextMatchState]_vars

\* A PinMatcher with hub policies and advisories applied to a pin.
SpecMatchPolicy == Init /\ [][NextMatchPolicy]_vars

\* A PinMatcher with entry and exit probes applied to pins of hubs with
\* entry and exit policies.
SpecMatchProbe == Init /\ [][NextMatchProbe]_vars

\* A PinMatcher of Options and a PinMatcher of their copy applied to pins.
SpecMatchCopy == Init /\ [][NextMatchCopy]_vars

\* Messages made, marked and batched by Consume.
SpecMsg == Init /\ [][NextMsg]_vars

====
